---------------------------- MODULE Spec2Model ----------------------------
(***************************************************************************)
(* PyroWave: the wavelet block geometry (WaveletBuffers), the CPU-side     *)
(* packetizer of the encoder (compute_num_packets, packetize) and the      *)
(* packet ingestor of the decoder (push_packet, decode_packet, clear,      *)
(* decode_is_ready, decode).                                               *)
(*                                                                         *)
(* Buffers are sequences of bytes (0..255).  Headers are written and read  *)
(* field by field with the bit layout of BitstreamHeader and               *)
(* BitstreamSequenceHeader (little endian, bit-fields filled from the      *)
(* least significant bit).                                                 *)
(***************************************************************************)
EXTENDS Integers, Sequences, FiniteSets, TLC

(***************************************************************************)
(* Program constants.                                                      *)
(***************************************************************************)
DecompositionLevels == 5
Alignment == 32
MinimumImageSize == 128
NumComponents == 3
NumFrequencyBandsPerLevel == 4
SequenceCountMask == 7
BITSTREAM_EXTENDED_CODE_START_OF_FRAME == 0
CHROMA_RESOLUTION_420 == 0
CHROMA_RESOLUTION_444 == 1
Chroma420 == 0
Chroma444 == 1
\* sizeof(BitstreamHeader) = sizeof(BitstreamSequenceHeader), in bytes.
HeaderBytes == 8
\* sizeof(uint32_t)
WordBytes == 4
\* UINT32_MAX, the "unset" value of last_seq and of a dequant offset.  It is
\* written as the 32-bit pattern 0xffffffff read as a signed number: no
\* sequence number (3 bits) and no payload offset of the model equals it, and
\* (sequence - UINT32_MAX) & 7 = (sequence + 1) & 7 either way.
UINT32_MAX == -1

Min(a, b) == IF a < b THEN a ELSE b
Max(a, b) == IF a > b THEN a ELSE b

Pow2(n) == 2 ^ n

(***************************************************************************)
(* WaveletBuffers: block geometry.                                         *)
(***************************************************************************)
\* align(value, align) for a power of two: (value + align - 1) & ~(align - 1)
align(value, al) == ((value + al - 1) \div al) * al

AlignedSize(size) == Max(align(size, Alignment), MinimumImageSize)

\* wavelet_img_high_res is aligned/2 wide with one mip level per
\* decomposition level; get_width(level) is the mip size, at least 1.
LevelSize(aligned, level) == Max(1, (aligned \div 2) \div Pow2(level))

BlockInfoZero ==
    [block_offset_8x8 |-> 0, block_stride_8x8 |-> 0,
     block_offset_32x32 |-> 0, block_stride_32x32 |-> 0]

BandKeys == (0 .. NumComponents - 1) \X (0 .. DecompositionLevels - 1)
                \X (0 .. NumFrequencyBandsPerLevel - 1)

\* State of WaveletBuffers before init_block_meta: counters 0, block_meta
\* zero-initialised, no mapping.
GeometryZero ==
    [block_count_8x8 |-> 0, block_count_32x32 |-> 0,
     block_meta |-> [k \in BandKeys |-> BlockInfoZero],
     block_32x32_to_8x8_mapping |-> <<>>]

\* accumulate_block_mapping giving every coarse block four columns.
accumulate_block_mapping_full_width(g, blocks_x_8x8, blocks_y_8x8) ==
    LET blocks_x_32x32 == (blocks_x_8x8 + 3) \div 4
        blocks_y_32x32 == (blocks_y_8x8 + 3) \div 4
        pushed == [i \in 1 .. blocks_x_32x32 * blocks_y_32x32 |->
            LET y == (i - 1) \div blocks_x_32x32
                x == (i - 1) % blocks_x_32x32
            IN  [block_offset_8x8 |->
                     g.block_count_8x8 + 4 * y * blocks_x_8x8 + 4 * x,
                 block_stride_8x8 |-> blocks_x_8x8,
                 block_width_8x8 |-> 4,
                 block_height_8x8 |-> Min(4, blocks_y_8x8 - 4 * y)]]
    IN  [g EXCEPT
            !.block_32x32_to_8x8_mapping = @ \o pushed,
            !.block_count_32x32 = @ + blocks_x_32x32 * blocks_y_32x32,
            !.block_count_8x8 = @ + blocks_x_8x8 * blocks_y_8x8]

\* The two loops of accumulate_block_mapping: coarse block (x, y) is pushed
\* at position y * blocks_x_32x32 + x.
accumulate_block_mapping(g, blocks_x_8x8, blocks_y_8x8) ==
    LET blocks_x_32x32 == (blocks_x_8x8 + 3) \div 4
        blocks_y_32x32 == (blocks_y_8x8 + 3) \div 4
        pushed == [i \in 1 .. blocks_x_32x32 * blocks_y_32x32 |->
            LET y == (i - 1) \div blocks_x_32x32
                x == (i - 1) % blocks_x_32x32
            IN  [block_offset_8x8 |->
                     g.block_count_8x8 + 4 * y * blocks_x_8x8 + 4 * x,
                 block_stride_8x8 |-> blocks_x_8x8,
                 block_width_8x8 |-> Min(4, blocks_x_8x8 - 4 * x),
                 block_height_8x8 |-> Min(4, blocks_y_8x8 - 4 * y)]]
    IN  [g EXCEPT
            !.block_32x32_to_8x8_mapping = @ \o pushed,
            !.block_count_32x32 = @ + blocks_x_32x32 * blocks_y_32x32,
            !.block_count_8x8 = @ + blocks_x_8x8 * blocks_y_8x8]

\* Position k = 0 .. 59 of the three nested loops of init_block_meta:
\* level from DecompositionLevels - 1 down to 0, then component, then band.
LoopLevel(k) ==
    DecompositionLevels - 1
        - (k \div (NumComponents * NumFrequencyBandsPerLevel))
LoopComponent(k) == (k \div NumFrequencyBandsPerLevel) % NumComponents
LoopBand(k) == k % NumFrequencyBandsPerLevel
LoopCount == DecompositionLevels * NumComponents * NumFrequencyBandsPerLevel

\* Whether init_block_meta gives band (component, level, band) blocks.
BandIsCoded(ch, component, level, band) ==
    /\ ~(level = 0 /\ component # 0 /\ ch = Chroma420)
    /\ band >= (IF level = DecompositionLevels - 1 THEN 0 ELSE 1)

\* The band's 32x32 stride rounded down instead of up.
init_block_meta_band_floor_stride(g, aw, ah, component, level, band) ==
    LET level_width == LevelSize(aw, level)
        level_height == LevelSize(ah, level)
        blocks_x_8x8 == (level_width + 7) \div 8
        blocks_y_8x8 == (level_height + 7) \div 8
        blocks_x_32x32 == Max(1, level_width \div 32)
        g1 == [g EXCEPT !.block_meta[<<component, level, band>>] =
                  [block_offset_8x8 |-> g.block_count_8x8,
                   block_stride_8x8 |-> blocks_x_8x8,
                   block_offset_32x32 |-> g.block_count_32x32,
                   block_stride_32x32 |-> blocks_x_32x32]]
    IN  accumulate_block_mapping(g1, blocks_x_8x8, blocks_y_8x8)

\* One iteration of the innermost loop body of init_block_meta.
init_block_meta_band(g, aw, ah, component, level, band) ==
    LET level_width == LevelSize(aw, level)
        level_height == LevelSize(ah, level)
        blocks_x_8x8 == (level_width + 7) \div 8
        blocks_y_8x8 == (level_height + 7) \div 8
        blocks_x_32x32 == (level_width + 31) \div 32
        g1 == [g EXCEPT !.block_meta[<<component, level, band>>] =
                  [block_offset_8x8 |-> g.block_count_8x8,
                   block_stride_8x8 |-> blocks_x_8x8,
                   block_offset_32x32 |-> g.block_count_32x32,
                   block_stride_32x32 |-> blocks_x_32x32]]
    IN  accumulate_block_mapping(g1, blocks_x_8x8, blocks_y_8x8)

\* Iteration k of the loops of init_block_meta (a skipped band: continue).
init_block_meta_iteration(g, k, aw, ah, ch) ==
    IF BandIsCoded(ch, LoopComponent(k), LoopLevel(k), LoopBand(k))
    THEN init_block_meta_band(g, aw, ah, LoopComponent(k), LoopLevel(k),
                              LoopBand(k))
    ELSE g

(***************************************************************************)
(* Wire format: BitstreamHeader and BitstreamSequenceHeader, 8 bytes each. *)
(***************************************************************************)
\* struct BitstreamHeader { u16 ballot; u16 payload_words : 12, sequence : 3,
\* extended : 1; u32 quant_code : 8, block_index : 24; }.  A value stored in
\* a bit-field is cut to the field's width.
BitstreamHeaderBytes(ballot, payload_words, sequence, extended, quant_code, block_index) ==
    LET pw == payload_words % 4096
        bi == block_index % 16777216
    IN  << (ballot % 65536) % 256, (ballot % 65536) \div 256,
           pw % 256,
           (pw \div 256) + 16 * (sequence % 8) + 128 * (extended % 2),
           quant_code % 256,
           bi % 256, (bi \div 256) % 256, bi \div 65536 >>

\* struct BitstreamSequenceHeader { u32 width_minus_1 : 14,
\* height_minus_1 : 14, sequence : 3, extended : 1; u32 total_blocks : 24,
\* code : 2, chroma_resolution : 1, (five colour flags) }.
BitstreamSequenceHeaderBytes(width_minus_1, height_minus_1, sequence, extended, total_blocks, code, chroma_resolution) ==
    LET wm == width_minus_1 % 16384
        hm == height_minus_1 % 16384
        tb == total_blocks % 16777216
    IN  << wm % 256,
           (wm \div 256) + 64 * (hm % 4),
           (hm \div 4) % 256,
           (hm \div 1024) + 16 * (sequence % 8) + 128 * (extended % 2),
           tb % 256, (tb \div 256) % 256, tb \div 65536,
           (code % 4) + 4 * (chroma_resolution % 2) >>

\* Fields of the BitstreamHeader that starts o bytes into data.
hdr_ballot(data, o) == data[o + 1] + 256 * data[o + 2]
hdr_payload_words(data, o) == data[o + 3] + 256 * (data[o + 4] % 16)
hdr_sequence(data, o) == (data[o + 4] \div 16) % 8
hdr_extended(data, o) == data[o + 4] \div 128
hdr_quant_code(data, o) == data[o + 5]
hdr_block_index(data, o) ==
    data[o + 6] + 256 * data[o + 7] + 65536 * data[o + 8]

\* Fields of the BitstreamSequenceHeader that starts o bytes into data.
seq_width_minus_1(data, o) == data[o + 1] + 256 * (data[o + 2] % 64)
seq_height_minus_1(data, o) ==
    (data[o + 2] \div 64) + 4 * data[o + 3] + 1024 * (data[o + 4] % 16)
seq_total_blocks(data, o) ==
    data[o + 5] + 256 * data[o + 6] + 65536 * data[o + 7]
seq_code(data, o) == data[o + 8] % 4
seq_chroma_resolution(data, o) == (data[o + 8] \div 4) % 2

(***************************************************************************)
(* State.                                                                  *)
(***************************************************************************)
VARIABLES
    \* the Vulkan::Device the session runs on
    device,
    \* WaveletBuffers (the session)
    width, height, chroma,
    block_count_8x8, block_count_32x32, block_meta,
    block_32x32_to_8x8_mapping,
    \* the iteration init_block_meta is at (LoopCount: it has returned), and
    \* whether init has returned
    init_pos, initialized,
    \* Decoder::Impl
    dequant_offset_buffer_cpu, payload_data_cpu, decoded_blocks,
    total_blocks_in_sequence, last_seq, decoded_frame_for_current_sequence,
    \* whether Encoder::init has returned, Encoder::Impl, and the buffers
    \* encode has filled (read back mapped)
    encoder_initialized, sequence_count, mapped_meta, mapped_bitstream,
    \* the commands the last encode has recorded in its command buffer
    cmd,
    \* the caller of the packetizer: the packet boundary it asked for, the
    \* results of compute_num_packets and of packetize, the packet array and
    \* the output bitstream it passed, the packet it sends next, and the
    \* number of frames it has had encoded
    boundary, num_packets, out_packets, packets, output_bitstream,
    next_packet, frames_encoded,
    \* a quant code, the scale decode_quant makes of it (the bits of the
    \* float) and the code encode_quant makes of that scale
    quant_code, decoder_q_scale, encoded_quant_code,
    \* the last API call and what it returned and logged
    call

wbVars == << device, width, height, chroma, block_count_8x8, block_count_32x32,
             block_meta, block_32x32_to_8x8_mapping, init_pos, initialized >>
decVars == << dequant_offset_buffer_cpu, payload_data_cpu, decoded_blocks,
              total_blocks_in_sequence, last_seq,
              decoded_frame_for_current_sequence >>
encVars == << encoder_initialized, sequence_count, mapped_meta,
              mapped_bitstream, cmd >>
callerVars == << boundary, num_packets, out_packets, packets,
                 output_bitstream, next_packet, frames_encoded >>
quantVars == << quant_code, decoder_q_scale, encoded_quant_code >>
vars == << wbVars, decVars, encVars, callerVars, quantVars, call >>

(***************************************************************************)
(* Decoder::Impl.  The operations take and return the member variables as  *)
(* a record, so that the parsing loop can thread them.                     *)
(***************************************************************************)
DecoderState ==
    [dequant_offset_buffer_cpu |-> dequant_offset_buffer_cpu,
     payload_data_cpu |-> payload_data_cpu,
     decoded_blocks |-> decoded_blocks,
     total_blocks_in_sequence |-> total_blocks_in_sequence,
     last_seq |-> last_seq,
     decoded_frame_for_current_sequence |->
         decoded_frame_for_current_sequence]

\* A clear that also forgets the adopted sequence.
clear_forgets_sequence(st) ==
    [st EXCEPT
        !.dequant_offset_buffer_cpu =
            [i \in DOMAIN st.dequant_offset_buffer_cpu |-> UINT32_MAX],
        !.decoded_blocks = 0,
        !.decoded_frame_for_current_sequence = FALSE,
        !.total_blocks_in_sequence = block_count_32x32,
        !.payload_data_cpu = << >>,
        !.last_seq = UINT32_MAX]

\* A clear that leaves total_blocks_in_sequence as it is.
clear_keeps_total(st) ==
    [st EXCEPT
        !.dequant_offset_buffer_cpu =
            [i \in DOMAIN st.dequant_offset_buffer_cpu |-> UINT32_MAX],
        !.decoded_blocks = 0,
        !.decoded_frame_for_current_sequence = FALSE,
        !.payload_data_cpu = << >>]

\* Decoder::Impl::clear.  last_seq is not touched.
clear(st) ==
    [st EXCEPT
        !.dequant_offset_buffer_cpu =
            [i \in DOMAIN st.dequant_offset_buffer_cpu |-> UINT32_MAX],
        !.decoded_blocks = 0,
        !.decoded_frame_for_current_sequence = FALSE,
        !.total_blocks_in_sequence = block_count_32x32,
        !.payload_data_cpu = << >>]

\* The difference taken with a two-bit mask.
SequenceDiff_two_bits(sequence, last) == (sequence - last) % 4

\* uint8_t diff = (header->sequence - last_seq) & SequenceCountMask
SequenceDiff(sequence, last) == (sequence - last) % (SequenceCountMask + 1)

\* The window of stale sequences taken as (4, 7].
IsBackwards_above_four(diff) == diff > (SequenceCountMask + 1) \div 2

\* "Backwards sequence detected": diff > (SequenceCountMask / 2)
IsBackwards(diff) == diff > SequenceCountMask \div 2

\* decode_packet with decoded_blocks++ in front of the presence test.
decode_packet_counts_first(st, data, o) ==
    LET block_index == hdr_block_index(data, o)
        payload_words == hdr_payload_words(data, o)
        st0 == [st EXCEPT !.decoded_blocks = @ + 1]
    IN  IF st.dequant_offset_buffer_cpu[block_index] = UINT32_MAX
        THEN LET st1 == [st0 EXCEPT
                     !.dequant_offset_buffer_cpu[block_index] =
                         Len(st.payload_data_cpu) \div WordBytes]
             IN  IF HeaderBytes \div WordBytes > payload_words
                 THEN [st |-> st1, ret |-> FALSE,
                       log |-> "payload_words is not large enough"]
                 ELSE [st |-> [st1 EXCEPT !.payload_data_cpu = @ \o
                               SubSeq(data, o + 1,
                                      o + payload_words * WordBytes)],
                       ret |-> TRUE, log |-> ""]
        ELSE [st |-> st0, ret |-> TRUE, log |-> "already decoded, skipping"]

\* Decoder::Impl::decode_packet for the block header at offset o.
decode_packet(st, data, o) ==
    LET block_index == hdr_block_index(data, o)
        payload_words == hdr_payload_words(data, o)
    IN  IF st.dequant_offset_buffer_cpu[block_index] = UINT32_MAX
        THEN LET st1 == [st EXCEPT
                     !.decoded_blocks = @ + 1,
                     !.dequant_offset_buffer_cpu[block_index] =
                         Len(st.payload_data_cpu) \div WordBytes]
             IN  IF HeaderBytes \div WordBytes > payload_words
                 THEN [st |-> st1, ret |-> FALSE,
                       log |-> "payload_words is not large enough"]
                 ELSE [st |-> [st1 EXCEPT !.payload_data_cpu = @ \o
                               SubSeq(data, o + 1,
                                      o + payload_words * WordBytes)],
                       ret |-> TRUE, log |-> ""]
        ELSE [st |-> st, ret |-> TRUE, log |-> "already decoded, skipping"]

\* What a push_packet call leaves behind: the state, what it returned
\* ("diverges": the parsing loop never ends), the last message logged, the
\* offset of the header it was parsing when it ended, that header's sequence
\* diff (-1: none computed), whether the call ran clear() and whether it
\* stored a START_OF_FRAME's total_blocks, the indices at which
\* decode_packet has accessed dequant_offset_buffer_cpu, and waiting:
\* whether it ran clear() and stored no total_blocks after the last one.
PushResult(st, rc, log, at, diff, h) ==
    [st |-> st, rc |-> rc, log |-> log, at |-> at, diff |-> diff,
     cleared |-> h.cleared, sof |-> h.sof, touched |-> h.touched,
     waiting |-> h.waiting]

RECURSIVE push_packet_loop(_, _, _, _)
RECURSIVE push_packet_sequence_header(_, _, _, _)
RECURSIVE push_packet_block(_, _, _, _)

\* The extended != 0 branch of the loop body.  The code computes diff even
\* when last_seq is UINT32_MAX and then ignores it; the record keeps -1.
push_packet_sequence_header(st, data, o, h) ==
    LET size == Len(data) - o
        sequence == hdr_sequence(data, o)
        diff == SequenceDiff(sequence, st.last_seq)
        d == IF st.last_seq = UINT32_MAX THEN -1 ELSE diff
        adopt == st.last_seq = UINT32_MAX \/ diff # 0
        st1 == IF adopt THEN [clear(st) EXCEPT !.last_seq = sequence] ELSE st
        h1 == [h EXCEPT !.cleared = @ \/ adopt, !.waiting = @ \/ adopt]
    IN  IF HeaderBytes > size
        THEN PushResult(st, "false", "Parsing sequence header, bytes left",
                        o, -1, h)
        ELSE IF seq_chroma_resolution(data, o) # chroma
        THEN PushResult(st, "false", "Chroma resolution mismatch", o, -1, h)
        ELSE IF st.last_seq # UINT32_MAX /\ IsBackwards(diff)
        THEN PushResult(st, "true", "Backwards sequence detected", o, d, h)
        ELSE IF seq_code(data, o) = BITSTREAM_EXTENDED_CODE_START_OF_FRAME
        THEN IF \/ seq_width_minus_1(data, o) + 1 # width
                \/ seq_height_minus_1(data, o) + 1 # height
             THEN PushResult(st1, "false", "Dimension mismatch", o, d, h1)
             ELSE push_packet_loop(
                      [st1 EXCEPT !.total_blocks_in_sequence =
                                      seq_total_blocks(data, o)],
                      data, o + HeaderBytes,
                      [h1 EXCEPT !.sof = TRUE, !.waiting = FALSE])
        ELSE PushResult(st1, "false", "Unrecognized sequence header mode",
                        o, d, h1)

\* The block branch with the restart moved in front of the size check.
push_packet_block_restart_first(st, data, o, h) ==
    LET size == Len(data) - o
        packet_size == hdr_payload_words(data, o) * WordBytes
        sequence == hdr_sequence(data, o)
        diff == IF st.last_seq = UINT32_MAX THEN -1
                ELSE SequenceDiff(sequence, st.last_seq)
        restart == st.last_seq = UINT32_MAX \/ diff # 0
        st1 == IF restart THEN [clear(st) EXCEPT !.last_seq = sequence]
               ELSE st
        h1 == [h EXCEPT !.cleared = @ \/ restart,
                        !.waiting = @ \/ restart]
    IN  IF st.last_seq # UINT32_MAX /\ IsBackwards(diff)
        THEN PushResult(st, "true", "Backwards sequence detected", o, diff, h)
        ELSE IF packet_size > size
        THEN PushResult(st1, "false", "Packet header states more bytes", o,
                        -1, h1)
        ELSE IF hdr_block_index(data, o) >= block_count_32x32
        THEN PushResult(st1, "false", "block_index is out of bounds", o,
                        diff, h1)
        ELSE IF ~decode_packet(st1, data, o).ret
        THEN PushResult(decode_packet(st1, data, o).st, "false",
                        decode_packet(st1, data, o).log, o, diff, h1)
        ELSE IF packet_size = 0
        THEN PushResult(decode_packet(st1, data, o).st, "diverges", "", o,
                        diff, h1)
        ELSE push_packet_loop(decode_packet(st1, data, o).st, data,
                              o + packet_size, h1)

\* The block branch with an out-of-bounds block skipped: the call returns
\* true.
push_packet_block_skips_out_of_bounds(st, data, o, h) ==
    LET size == Len(data) - o
        packet_size == hdr_payload_words(data, o) * WordBytes
        sequence == hdr_sequence(data, o)
        diff == IF st.last_seq = UINT32_MAX THEN -1
                ELSE SequenceDiff(sequence, st.last_seq)
        restart == st.last_seq = UINT32_MAX \/ diff # 0
        st1 == IF restart THEN [clear(st) EXCEPT !.last_seq = sequence]
               ELSE st
        h1 == [h EXCEPT !.cleared = @ \/ restart,
                        !.waiting = @ \/ restart]
        dec == decode_packet(st1, data, o)
        h2 == [h1 EXCEPT !.touched = @ \cup {hdr_block_index(data, o)}]
    IN  IF packet_size > size
        THEN PushResult(st, "false", "Packet header states more bytes", o,
                        -1, h)
        ELSE IF st.last_seq # UINT32_MAX /\ IsBackwards(diff)
        THEN PushResult(st, "true", "Backwards sequence detected", o, diff, h)
        ELSE IF hdr_block_index(data, o) >= block_count_32x32
        THEN PushResult(st1, "true", "block_index is out of bounds", o,
                        diff, h1)
        ELSE IF ~dec.ret
        THEN PushResult(dec.st, "false", dec.log, o, diff, h2)
        ELSE IF packet_size = 0
        THEN PushResult(dec.st, "diverges", dec.log, o, diff, h2)
        ELSE push_packet_loop(dec.st, data, o + packet_size, h2)

\* The extended = 0 branch of the loop body.
push_packet_block(st, data, o, h) ==
    LET size == Len(data) - o
        packet_size == hdr_payload_words(data, o) * WordBytes
        sequence == hdr_sequence(data, o)
        diff == IF st.last_seq = UINT32_MAX THEN -1
                ELSE SequenceDiff(sequence, st.last_seq)
        restart == st.last_seq = UINT32_MAX \/ diff # 0
        st1 == IF restart THEN [clear(st) EXCEPT !.last_seq = sequence]
               ELSE st
        h1 == [h EXCEPT !.cleared = @ \/ restart,
                        !.waiting = @ \/ restart]
        dec == decode_packet(st1, data, o)
        h2 == [h1 EXCEPT !.touched = @ \cup {hdr_block_index(data, o)}]
    IN  IF packet_size > size
        THEN PushResult(st, "false", "Packet header states more bytes", o,
                        -1, h)
        ELSE IF st.last_seq # UINT32_MAX /\ IsBackwards(diff)
        THEN PushResult(st, "true", "Backwards sequence detected", o, diff, h)
        ELSE IF hdr_block_index(data, o) >= block_count_32x32
        THEN PushResult(st1, "false", "block_index is out of bounds", o,
                        diff, h1)
        ELSE IF ~dec.ret
        THEN PushResult(dec.st, "false", dec.log, o, diff, h2)
        \* data += 0, size -= 0: the next iteration is this one again.
        ELSE IF packet_size = 0
        THEN PushResult(dec.st, "diverges", dec.log, o, diff, h2)
        ELSE push_packet_loop(dec.st, data, o + packet_size, h2)

\* while (size >= sizeof(BitstreamHeader)) { ... } and the check after it;
\* o bytes of data are consumed.
push_packet_loop(st, data, o, h) ==
    IF Len(data) - o >= HeaderBytes
    THEN IF hdr_extended(data, o) # 0
         THEN push_packet_sequence_header(st, data, o, h)
         ELSE push_packet_block(st, data, o, h)
    ELSE IF Len(data) - o # 0
    THEN PushResult(st, "false", "Did not consume packet completely", o,
                    -1, h)
    ELSE PushResult(st, "true", "", o, -1, h)

\* Decoder::Impl::push_packet(data, size) with size = Len(data).
push_packet(st, data) ==
    push_packet_loop(st, data, 0,
                     [cleared |-> FALSE, sof |-> FALSE, touched |-> {},
                      waiting |-> FALSE])

\* decode_is_ready taking exactly half of the blocks as enough.
decode_is_ready_in_half(st, allow_partial_frame) ==
    IF st.decoded_frame_for_current_sequence THEN FALSE
    ELSE IF /\ st.decoded_blocks < st.total_blocks_in_sequence
            /\ (\/ ~allow_partial_frame
                \/ st.decoded_blocks < st.total_blocks_in_sequence \div 2)
    THEN FALSE
    ELSE TRUE

\* decode_is_ready without the decoded-frame flag.
decode_is_ready_in_no_flag(st, allow_partial_frame) ==
    IF /\ st.decoded_blocks < st.total_blocks_in_sequence
       /\ (\/ ~allow_partial_frame
           \/ st.decoded_blocks <= st.total_blocks_in_sequence \div 2)
    THEN FALSE
    ELSE TRUE

\* Decoder::Impl::decode_is_ready
decode_is_ready_in(st, allow_partial_frame) ==
    IF st.decoded_frame_for_current_sequence THEN FALSE
    ELSE IF /\ st.decoded_blocks < st.total_blocks_in_sequence
            /\ (\/ ~allow_partial_frame
                \/ st.decoded_blocks <= st.total_blocks_in_sequence \div 2)
    THEN FALSE
    ELSE TRUE

decode_is_ready(allow_partial_frame) ==
    decode_is_ready_in(DecoderState, allow_partial_frame)

\* Decoder::Impl::decode: the uploads and the three stages cannot fail once
\* Decoder::init has accepted the device, so the call ends by setting the flag.
decode(st) == [st EXCEPT !.decoded_frame_for_current_sequence = TRUE]

(***************************************************************************)
(* Encoder::Impl: the CPU side of the packetizer.  mapped_meta is the array *)
(* of BitstreamPackets as a sequence (meta[i] of the code is element i + 1) *)
(* and mapped_bitstream is a sequence of bytes.                            *)
(***************************************************************************)
BitAt(value, bit) == (value \div Pow2(bit)) % 2

\* Util::popcount32 of a 16-bit value.
popcount32(value) == Cardinality({bit \in 0 .. 15 : BitAt(value, bit) = 1})

\* The block indices with num_words != 0, in increasing order.
NonEmptyBlocks(meta) ==
    {i \in 0 .. Len(meta) - 1 : meta[i + 1].num_words # 0}

RECURSIVE SortedBlocks(_)
SortedBlocks(blocks) ==
    IF blocks = {} THEN << >>
    ELSE LET first == CHOOSE i \in blocks : \A j \in blocks : i <= j
         IN  << first >> \o SortedBlocks(blocks \ {first})

\* block_meta_8x8[block_8x8].block_mask: bit 2 * s is set when the 4x2
\* sub-block s of the 8x8 block (two columns, four rows, s = 2 * row +
\* column) starts inside the band.
block_mask(block_8x8) ==
    LET k == CHOOSE k \in 0 .. LoopCount - 1 :
                 /\ BandIsCoded(chroma, LoopComponent(k), LoopLevel(k),
                                LoopBand(k))
                 /\ LET meta == block_meta[<<LoopComponent(k), LoopLevel(k),
                                             LoopBand(k)>>]
                        rows == (LevelSize(AlignedSize(height), LoopLevel(k))
                                     + 7) \div 8
                    IN  /\ meta.block_offset_8x8 <= block_8x8
                        /\ block_8x8 < meta.block_offset_8x8
                                           + meta.block_stride_8x8 * rows
        meta == block_meta[<<LoopComponent(k), LoopLevel(k), LoopBand(k)>>]
        x == (block_8x8 - meta.block_offset_8x8) % meta.block_stride_8x8
        y == (block_8x8 - meta.block_offset_8x8) \div meta.block_stride_8x8
        inside == {sub \in 0 .. 7 :
            /\ 8 * x + 4 * (sub % 2)
                   < LevelSize(AlignedSize(width), LoopLevel(k))
            /\ 8 * y + 2 * (sub \div 2)
                   < LevelSize(AlignedSize(height), LoopLevel(k))}
        bit(sub) == IF sub \in inside THEN Pow2(2 * sub) ELSE 0
    IN  bit(0) + bit(1) + bit(2) + bit(3) + bit(4) + bit(5) + bit(6) + bit(7)

\* popcount of the OR of the num_planes plane bytes that start at byte at.
PlaneSignificance(bitstream, at, num_planes) ==
    Cardinality({bit \in 0 .. 7 :
        \E plane \in 0 .. num_planes - 1 :
            BitAt(bitstream[at + plane + 1], bit) = 1})

\* One iteration of the loop over subblock_offset = 0, 2, .. 14 for one 8x8
\* block: w carries the byte offset (within the block), the number of
\* significant values, and read, the end of the bytes of the block that
\* were dereferenced so far (one past the highest offset).
validate_subblock(bitstream, o, control, q_bits, mask, sub, w) ==
    LET num_planes == q_bits + ((control \div Pow2(2 * sub)) % 4)
    IN  IF ((mask \div Pow2(2 * sub)) % 4) # 0
        THEN [w EXCEPT
                 !.offset = @ + num_planes,
                 !.significant = @ + PlaneSignificance(bitstream,
                                         o + w.offset, num_planes),
                 !.read = IF num_planes > 0
                          THEN Max(@, w.offset + num_planes) ELSE @]
        ELSE w

\* The loop over subblock_offset, from sub-block sub on.
RECURSIVE validate_subblocks(_, _, _, _, _, _, _)
validate_subblocks(bitstream, o, control, q_bits, mask, sub, w) ==
    IF sub = 8 THEN w
    ELSE validate_subblocks(bitstream, o, control, q_bits, mask, sub + 1,
             validate_subblock(bitstream, o, control, q_bits, mask, sub, w))

\* The lambda Util::for_each_bit runs for a set bit of the ballot; w carries
\* the number of control words consumed, the byte offset, the significant
\* values and invalid_packet.
validate_ballot_bit(bitstream, o, mapping, bit, w) ==
    IF bit % 4 < mapping.block_width_8x8
           /\ bit \div 4 < mapping.block_height_8x8
    THEN LET blocks_8x8 == popcount32(hdr_ballot(bitstream, o))
             mask == block_mask(mapping.block_offset_8x8
                         + mapping.block_stride_8x8 * (bit \div 4)
                         + (bit % 4))
             control == bitstream[o + HeaderBytes + 2 * w.words + 1]
                 + 256 * bitstream[o + HeaderBytes + 2 * w.words + 2]
             q_bits == bitstream[o + HeaderBytes + 2 * blocks_8x8
                                   + w.words + 1] % 16
             lsbs_ok == \A sub \in 0 .. 7 :
                 BitAt(control, 2 * sub) = 1 => BitAt(mask, 2 * sub) = 1
             msbs_ok == \A sub \in 0 .. 7 :
                 BitAt(control, 2 * sub + 1) = 1 => BitAt(mask, 2 * sub) = 1
         IN  [validate_subblocks(bitstream, o, control, q_bits, mask, 0,
                  [w EXCEPT !.read = Max(@, HeaderBytes + 2 * blocks_8x8
                                                + w.words + 1)])
                  EXCEPT !.words = @ + 1,
                         !.invalid = @ \/ ~lsbs_ok \/ ~msbs_ok]
    ELSE [w EXCEPT !.invalid = TRUE]

\* Util::for_each_bit(header->ballot, ...) from bit on.
RECURSIVE validate_ballot(_, _, _, _, _)
validate_ballot(bitstream, o, mapping, bit, w) ==
    IF bit = 16 THEN w
    ELSE validate_ballot(bitstream, o, mapping, bit + 1,
             IF BitAt(hdr_ballot(bitstream, o), bit) = 0 THEN w
             ELSE validate_ballot_bit(bitstream, o, mapping, bit, w))

\* validate_bitstream rounding the byte offset down to words.
validate_offset_rounds_down(w, payload_words) ==
    IF w.invalid THEN FALSE
    ELSE (w.offset + (w.significant + 7) \div 8) \div 4 = payload_words

\* The end of validate_bitstream: invalid_packet, then the sign bits and
\* the comparison of offset_words with payload_words.
validate_offset(w, payload_words) ==
    IF w.invalid THEN FALSE
    ELSE (w.offset + (w.significant + 7) \div 8 + 3) \div 4 = payload_words

\* Encoder::Impl::validate_bitstream
validate_bitstream(bitstream, meta, block_index) ==
    IF meta[block_index + 1].num_words = 0 THEN TRUE
    ELSE LET o == meta[block_index + 1].offset_u32 * WordBytes
             payload_words == hdr_payload_words(bitstream, o)
             offset == HeaderBytes
                           + 3 * popcount32(hdr_ballot(bitstream, o))
         IN  IF hdr_block_index(bitstream, o) # block_index THEN FALSE
             ELSE IF payload_words # meta[block_index + 1].num_words
             THEN FALSE
             ELSE IF offset > payload_words * WordBytes THEN FALSE
             ELSE validate_offset(
                      validate_ballot(bitstream, o,
                          block_32x32_to_8x8_mapping[
                              hdr_block_index(bitstream, o) + 1],
                          0,
                          [words |-> 0, offset |-> offset, significant |-> 0,
                           invalid |-> FALSE, read |-> HeaderBytes]),
                      payload_words)

\* The bytes of a block validate_bitstream dereferences: the end (one past
\* the highest byte offset within the block) of what it read of block
\* block_index: nothing of an empty block, the header of a block rejected
\* before the walk.
validate_bitstream_reads(bitstream, meta, block_index) ==
    IF meta[block_index + 1].num_words = 0 THEN 0
    ELSE LET o == meta[block_index + 1].offset_u32 * WordBytes
             payload_words == hdr_payload_words(bitstream, o)
             offset == HeaderBytes
                           + 3 * popcount32(hdr_ballot(bitstream, o))
         IN  IF \/ hdr_block_index(bitstream, o) # block_index
                \/ payload_words # meta[block_index + 1].num_words
                \/ offset > payload_words * WordBytes
             THEN HeaderBytes
             ELSE validate_ballot(bitstream, o,
                      block_32x32_to_8x8_mapping[
                          hdr_block_index(bitstream, o) + 1],
                      0,
                      [words |-> 0, offset |-> offset, significant |-> 0,
                       invalid |-> FALSE, read |-> HeaderBytes]).read

\* The loop of compute_num_packets, from position at of the non-empty blocks
\* on: c carries num_packets and size_in_packet.
RECURSIVE compute_num_packets_loop(_, _, _, _, _)
compute_num_packets_loop(meta, packet_boundary, blocks, at, c) ==
    IF at > Len(blocks) THEN c
    ELSE LET packet_size == meta[blocks[at] + 1].num_words * WordBytes
             c1 == IF c.size_in_packet + packet_size > packet_boundary
                   THEN [num_packets |-> c.num_packets + 1,
                         size_in_packet |-> 0]
                   ELSE c
         IN  compute_num_packets_loop(meta, packet_boundary, blocks, at + 1,
                 [c1 EXCEPT !.size_in_packet = @ + packet_size])

\* compute_num_packets without the 8 bytes of the sequence header.
compute_num_packets_no_header(meta, packet_boundary) ==
    LET c == compute_num_packets_loop(meta, packet_boundary,
                 SortedBlocks(NonEmptyBlocks(meta)), 1,
                 [num_packets |-> 0, size_in_packet |-> 0])
    IN  IF c.size_in_packet # 0 THEN c.num_packets + 1 ELSE c.num_packets

\* Encoder::Impl::compute_num_packets
compute_num_packets(meta, packet_boundary) ==
    LET c == compute_num_packets_loop(meta, packet_boundary,
                 SortedBlocks(NonEmptyBlocks(meta)), 1,
                 [num_packets |-> 0, size_in_packet |-> HeaderBytes])
    IN  IF c.size_in_packet # 0 THEN c.num_packets + 1 ELSE c.num_packets

\* The copying loop with a packet closed as soon as it would be full.
RECURSIVE packetize_loop_closes_full(_, _, _, _, _, _)
packetize_loop_closes_full(meta, bitstream, packet_boundary, blocks, at, p) ==
    IF at > Len(blocks) THEN p
    ELSE LET i == blocks[at]
             packet_size == meta[i + 1].num_words * WordBytes
             p1 == IF p.size_in_packet + packet_size >= packet_boundary
                   THEN [p EXCEPT
                            !.packets = Append(@, [offset |-> p.packet_offset,
                                                   size |-> p.size_in_packet]),
                            !.size_in_packet = 0,
                            !.packet_offset = Len(p.output)]
                   ELSE p
         IN  packetize_loop_closes_full(meta, bitstream, packet_boundary,
                 blocks, at + 1,
                 [p1 EXCEPT
                     !.output = @ \o SubSeq(bitstream,
                                     meta[i + 1].offset_u32 * WordBytes + 1,
                                     meta[i + 1].offset_u32 * WordBytes
                                         + packet_size),
                     !.size_in_packet = @ + packet_size])

\* The copying loop of packetize, from position at of the non-empty blocks
\* on: p carries the packets written (num_packets is their number),
\* size_in_packet, packet_offset and the output (output_offset is its
\* length).
RECURSIVE packetize_loop(_, _, _, _, _, _)
packetize_loop(meta, bitstream, packet_boundary, blocks, at, p) ==
    IF at > Len(blocks) THEN p
    ELSE LET i == blocks[at]
             packet_size == meta[i + 1].num_words * WordBytes
             p1 == IF p.size_in_packet + packet_size > packet_boundary
                   THEN [p EXCEPT
                            !.packets = Append(@, [offset |-> p.packet_offset,
                                                   size |-> p.size_in_packet]),
                            !.size_in_packet = 0,
                            !.packet_offset = Len(p.output)]
                   ELSE p
         IN  packetize_loop(meta, bitstream, packet_boundary, blocks, at + 1,
                 [p1 EXCEPT
                     !.output = @ \o SubSeq(bitstream,
                                     meta[i + 1].offset_u32 * WordBytes + 1,
                                     meta[i + 1].offset_u32 * WordBytes
                                         + packet_size),
                     !.size_in_packet = @ + packet_size])

\* uint16_t block = header->block_index; assert(block == i); in the copy
\* loop of packetize, for block i: whether the assertion holds.
packetize_assert_block(meta, bitstream, i) ==
    hdr_block_index(bitstream, meta[i + 1].offset_u32 * WordBytes) % Pow2(16)
        = i

\* An end of packetize that leaves the open packet out.
packetize_end_drops_last(p) ==
    [num_packets |-> Len(p.packets), packets |-> p.packets,
     output |-> p.output]

\* The end of packetize: the last packet, and what the call returns, the
\* packets and the bytes it has written.
packetize_end(p) ==
    LET last == IF p.size_in_packet # 0
                THEN << [offset |-> p.packet_offset,
                         size |-> p.size_in_packet] >>
                ELSE << >>
    IN  [num_packets |-> Len(p.packets) + Len(last),
         packets |-> p.packets \o last, output |-> p.output]

\* packetize with the validation loop moved before the copy of the header.
packetize_validates_first(packet_boundary, meta, bitstream) ==
    IF \E i \in 0 .. Len(meta) - 1 :
           ~validate_bitstream(bitstream, meta, i)
    THEN [num_packets |-> 0, packets |-> << >>, output |-> << >>]
    ELSE packetize_end(
             packetize_loop(meta, bitstream, packet_boundary,
                 SortedBlocks(NonEmptyBlocks(meta)), 1,
                 [packets |-> << >>, size_in_packet |-> HeaderBytes,
                  packet_offset |-> 0,
                  output |-> BitstreamSequenceHeaderBytes(width - 1,
                      height - 1,
                      hdr_sequence(bitstream, meta[1].offset_u32 * WordBytes),
                      1, Cardinality(NonEmptyBlocks(meta)),
                      BITSTREAM_EXTENDED_CODE_START_OF_FRAME, 0)]))

\* Encoder::Impl::packetize.  header = {} leaves chroma_resolution and the
\* colour flags zero; the output buffer is taken to be large enough (the
\* asserts on size hold).  The header is copied out before the blocks are
\* validated.
packetize(packet_boundary, meta, bitstream) ==
    LET header == BitstreamSequenceHeaderBytes(width - 1, height - 1,
                      hdr_sequence(bitstream, meta[1].offset_u32 * WordBytes),
                      1, Cardinality(NonEmptyBlocks(meta)),
                      BITSTREAM_EXTENDED_CODE_START_OF_FRAME, 0)
    IN  IF \E i \in 0 .. Len(meta) - 1 :
               ~validate_bitstream(bitstream, meta, i)
        THEN [num_packets |-> 0, packets |-> << >>, output |-> header]
        ELSE packetize_end(
                 packetize_loop(meta, bitstream, packet_boundary,
                     SortedBlocks(NonEmptyBlocks(meta)), 1,
                     [packets |-> << >>, size_in_packet |-> HeaderBytes,
                      packet_offset |-> 0, output |-> header]))

(***************************************************************************)
(* Quant codes.  A float is its IEEE-754 single-precision bit pattern:     *)
(* sign, 8 bits of exponent biased by 127, 23 bits of mantissa.  Only      *)
(* non-negative values occur.                                              *)
(***************************************************************************)
MaxScaleExp == 4
FloatBias == 127
FloatMantissaBits == 23

\* The position of the highest set bit of n > 0.
RECURSIVE HighBit(_)
HighBit(n) == IF n < 2 THEN 0 ELSE 1 + HighBit(n \div 2)

\* n / 2^k rounded to the nearest integer, ties to even.
RoundShift(n, k) ==
    IF k <= 0 THEN n * Pow2(-k)
    ELSE (n \div Pow2(k))
             + (IF \/ 2 * (n % Pow2(k)) > Pow2(k)
                   \/ /\ 2 * (n % Pow2(k)) = Pow2(k)
                      /\ (n \div Pow2(k)) % 2 = 1
                THEN 1 ELSE 0)

\* float(n) for an int n >= 0: the nearest float.  A mantissa that rounds
\* up to 2^24 carries into the exponent.
float_of_int(n) ==
    IF n = 0 THEN 0
    ELSE (FloatBias + HighBit(n)) * Pow2(FloatMantissaBits)
             + RoundShift(n, HighBit(n) - FloatMantissaBits)
             - Pow2(FloatMantissaBits)

\* The product of the float f and the float 2^k (k < 0): exact while the
\* result is a normal number, rounded into the subnormals below that.
float_times_pow2(f, k) ==
    IF f = 0 THEN 0
    ELSE IF (f \div Pow2(FloatMantissaBits)) + k >= 1
    THEN f + k * Pow2(FloatMantissaBits)
    ELSE RoundShift(Pow2(FloatMantissaBits) + (f % Pow2(FloatMantissaBits)),
                    1 - ((f \div Pow2(FloatMantissaBits)) + k))

\* decode_quant: (1.0f / (8.0f * 1024.0f * 1024.0f)) is the float 2^-23.
decode_quant(code) ==
    float_times_pow2(
        float_of_int((8 + (code % 8))
                         * Pow2(20 + (MaxScaleExp - (code \div 8)))),
        -23)

\* An encode_quant that takes the mantissa one bit too low.
encode_quant_low_mantissa(v) ==
    IF -(((v \div Pow2(23)) % 256) - FloatBias - MaxScaleExp) \notin 0 .. 20
    THEN -1
    ELSE (-(((v \div Pow2(23)) % 256) - FloatBias - MaxScaleExp)) * 8
             + ((v \div Pow2(19)) % 8)

\* encode_quant on the bits v of decoder_q_scale; -1: the assert fails.
\* The result is a uint8_t.
encode_quant(v) ==
    IF -(((v \div Pow2(23)) % 256) - FloatBias - MaxScaleExp) \notin 0 .. 20
    THEN -1
    ELSE ((-(((v \div Pow2(23)) % 256) - FloatBias - MaxScaleExp)) * 8
              + ((v \div Pow2(20)) % 8)) % 256

(***************************************************************************)
(* The device, and the commands encode records.                            *)
(***************************************************************************)
\* Device::supports_subgroup_size_log2(true, lo, hi): the whole range of
\* the device's subgroup sizes lies in [2^lo, 2^hi], or the ranges overlap
\* and the device can be told the size to use.
supports_subgroup_size_log2(dev, lo, hi) ==
    \/ lo <= dev.min_log2 /\ hi >= dev.max_log2
    \/ /\ lo <= dev.max_log2
       /\ hi >= dev.min_log2
       /\ dev.required_size_control

\* Encoder::init: the capability checks (WaveletBuffers::init returns true).
Encoder_init(dev) ==
    IF ~dev.subgroup_ops THEN FALSE
    ELSE IF ~dev.broadcast_dynamic_id THEN FALSE
    ELSE IF ~dev.shader_float16 THEN FALSE
    ELSE IF /\ ~supports_subgroup_size_log2(dev, 4, 4)
            /\ ~supports_subgroup_size_log2(dev, 5, 5)
            /\ ~supports_subgroup_size_log2(dev, 6, 6)
    THEN FALSE
    ELSE TRUE

\* A recorded dispatch and a recorded cmd.barrier.
Dispatch(stage, level, component, band) ==
    [op |-> "dispatch", stage |-> stage, level |-> level,
     component |-> component, band |-> band, src |-> {}, dst |-> {}]
Barrier(stage, src, dst) ==
    [op |-> "barrier", stage |-> stage, level |-> -1, component |-> -1,
     band |-> -1, src |-> src, dst |-> dst]

\* The loops of quant, analyze_rdo and block_packing: level 0 upwards, the
\* components (level 0 of luma only), the bands; position k of
\* NumLevels * NumComponents * 4.
EncLoopLevel(k) == k \div (NumComponents * NumFrequencyBandsPerLevel)
EncLoopComponent(k) == (k \div NumFrequencyBandsPerLevel) % NumComponents
EncLoopBand(k) == k % NumFrequencyBandsPerLevel
EncLoopRuns(k) ==
    /\ ~(EncLoopLevel(k) = 0 /\ EncLoopComponent(k) # 0)
    /\ EncLoopBand(k) >= (IF EncLoopLevel(k) = DecompositionLevels - 1
                          THEN 0 ELSE 1)

\* What the band loops of a stage record from position k on; each names
\* what one iteration records.
RECURSIVE band_loops(_, _, _)
band_loops(stage, k, barrier_each) ==
    IF k = LoopCount THEN << >>
    ELSE (IF ~EncLoopRuns(k) THEN << >>
          ELSE << Dispatch(stage, EncLoopLevel(k), EncLoopComponent(k),
                           EncLoopBand(k)) >>
                   \o (IF barrier_each
                       THEN << Barrier(stage, {"compute:storage_write"},
                                       {"compute:storage_read"}) >>
                       ELSE << >>))
             \o band_loops(stage, k + 1, barrier_each)

\* Decoder::Impl::dequant: the dispatches of its loops over level, component
\* and band, which skip the level 0 chroma bands of a 4:2:0 session.
DecLoopRuns(ch, k) ==
    /\ ~(EncLoopLevel(k) = 0 /\ EncLoopComponent(k) # 0 /\ ch = Chroma420)
    /\ EncLoopBand(k) >= (IF EncLoopLevel(k) = DecompositionLevels - 1
                          THEN 0 ELSE 1)

dequant(ch) ==
    LET runs == SelectSeq([k \in 1 .. LoopCount |-> k - 1],
                          LAMBDA k : DecLoopRuns(ch, k))
    IN  [i \in DOMAIN runs |->
            Dispatch("dequant", EncLoopLevel(runs[i]),
                     EncLoopComponent(runs[i]), EncLoopBand(runs[i]))]

\* Encoder::Impl::dwt from output_level on: the dispatches of a level (luma
\* alone at level 0), then its barrier.
RECURSIVE dwt_levels(_)
dwt_levels(output_level) ==
    IF output_level = DecompositionLevels THEN << >>
    ELSE (IF output_level = 0 THEN << Dispatch("dwt", 0, 0, -1) >>
          ELSE [c \in 1 .. NumComponents |->
                   Dispatch("dwt", output_level, c - 1, -1)])
             \o << Barrier("dwt", {"compute:storage_write"},
                            {"compute:sampled_read"}) >>
             \o dwt_levels(output_level + 1)

\* The five stages: whether the stage returns true, and what it records.
\* What the loops of dwt, and of the three stages that loop over the
\* bands, record: the same in every call.
DwtLevels == dwt_levels(0)
BandLoops ==
    [stage \in {"quant", "analyze_rdo", "block_packing"} |->
        band_loops(stage, 0, stage = "block_packing")]

dwt(dev) == [ok |-> TRUE, cmds |-> DwtLevels]

\* A quant that records no barrier after its dispatches.
quant_without_barrier(dev) ==
    IF supports_subgroup_size_log2(dev, 5, 5)
    THEN [ok |-> TRUE, cmds |-> BandLoops["quant"]]
    ELSE [ok |-> FALSE, cmds |-> << >>]

quant(dev) ==
    IF supports_subgroup_size_log2(dev, 5, 5)
    THEN [ok |-> TRUE,
          cmds |-> BandLoops["quant"]
                       \o << Barrier("quant", {"compute:storage_write"},
                                     {"compute:storage_read"}) >>]
    ELSE [ok |-> FALSE, cmds |-> << >>]

analyze_rdo(dev) ==
    IF supports_subgroup_size_log2(dev, 4, 6)
    THEN [ok |-> TRUE,
          cmds |-> BandLoops["analyze_rdo"]
                       \o << Barrier("analyze_rdo", {"compute:storage_write"},
                                     {"compute:storage_read"}) >>]
    ELSE [ok |-> FALSE, cmds |-> << >>]

resolve_rdo(dev) ==
    IF \/ supports_subgroup_size_log2(dev, 6, 6)
       \/ supports_subgroup_size_log2(dev, 4, 4)
       \/ supports_subgroup_size_log2(dev, 5, 5)
    THEN [ok |-> TRUE,
          cmds |-> << Dispatch("resolve_rdo", -1, -1, -1),
                      Barrier("resolve_rdo", {"compute:storage_write"},
                              {"compute:storage_read"}) >>]
    ELSE [ok |-> FALSE, cmds |-> << >>]

block_packing(dev) ==
    IF supports_subgroup_size_log2(dev, 4, 6)
    THEN [ok |-> TRUE,
          cmds |-> BandLoops["block_packing"]
                       \o << Barrier("block_packing", {"compute:storage_write"},
                                 {"compute:storage_write",
                                  "transfer:write", "transfer:read"}) >>]
    ELSE [ok |-> FALSE, cmds |-> << >>]

\* Encoder::Impl::encode from stage number n on, after the commands in
\* done: the call returns at the first stage that returns false.
EncodeStage(dev, n) ==
    CASE n = 1 -> dwt(dev)
      [] n = 2 -> quant(dev)
      [] n = 3 -> analyze_rdo(dev)
      [] n = 4 -> resolve_rdo(dev)
      [] n = 5 -> block_packing(dev)

\* The barrier encode itself records after dwt, for the cleared buffers.
EncodeBetween(n) ==
    IF n = 1
    THEN << Barrier("encode", {"clear:transfer_write"},
                    {"compute:storage_read", "compute:storage_write"}) >>
    ELSE << >>

RECURSIVE encode_stages(_, _, _)
encode_stages(dev, n, done) ==
    IF n > 5 THEN [ok |-> TRUE, cmds |-> done]
    ELSE IF ~EncodeStage(dev, n).ok THEN [ok |-> FALSE, cmds |-> done]
    ELSE encode_stages(dev, n + 1,
                       done \o EncodeStage(dev, n).cmds \o EncodeBetween(n))

\* Encoder::Impl::encode: the image barrier and the three fills, then the
\* stages.
encode(dev) ==
    encode_stages(dev, 1,
        << Barrier("encode", {}, {"compute:storage_write"}),
           [Dispatch("encode", -1, -1, -1) EXCEPT !.op = "fill_buffer"],
           [Dispatch("encode", -1, -1, -1) EXCEPT !.op = "fill_buffer"],
           [Dispatch("encode", -1, -1, -1) EXCEPT !.op = "fill_buffer"] >>)

(***************************************************************************)
(* The decoder under arbitrary traffic: Spec.                              *)
(***************************************************************************)
\* Bounds of the traffic: the largest total_blocks a sequence header
\* carries, and the most payload words a block packet has after its header.
MaxTotal == 3
MaxExtraWords == 1

\* Sequence numbers on the wire.  Their pairwise differences mod 8 cover
\* 0 .. 7.
PushedSeqs == {0, 1, 3, 7}
\* Sequence numbers of the malformed buffers: against the sequences a
\* decoder can have adopted they give the differences 0 .. 5 and 7.
MalformedSeqs == {0, 3}
\* The sessions a decoder is initialised for.
DecoderSessions == {[width |-> 128, height |-> 128, chroma |-> Chroma420]}

FillBytes(n, b) == [i \in 1 .. n |-> b]

\* A block packet: header and extra payload words, payload_words = 2 + extra.
BlockPacket(sequence, block_index, extra) ==
    BitstreamHeaderBytes(0, 2 + extra, sequence, 0, 0, block_index)
        \o FillBytes(extra * WordBytes, 16 + (block_index % 16))

\* A block header alone, declaring payload_words words.
BareHeader(sequence, block_index, payload_words) ==
    BitstreamHeaderBytes(0, payload_words, sequence, 0, 0, block_index)

\* A sequence header for this session.
SequenceHeader(sequence, total_blocks) ==
    BitstreamSequenceHeaderBytes(width - 1, height - 1, sequence, 1,
        total_blocks, BITSTREAM_EXTENDED_CODE_START_OF_FRAME, chroma)

\* Block indices on the wire: the first and the last block of the session.
PushedBlocks == {0, block_count_32x32 - 1}

WellFormedInputs ==
    {SequenceHeader(s, t) : s \in PushedSeqs, t \in 0 .. MaxTotal}
    \cup {BlockPacket(s, 0, e) : s \in PushedSeqs, e \in 0 .. MaxExtraWords}
    \cup {BlockPacket(s, block_count_32x32 - 1, 0) : s \in PushedSeqs}
    \* a whole frame in one packet, as packetize lays it out
    \cup {SequenceHeader(3, 2) \o BlockPacket(3, 0, 0)
              \o BlockPacket(3, block_count_32x32 - 1, 0)}

MalformedInputs ==
    \* declared payload_words exceeds the buffer; payload_words 0 and 1
    {BareHeader(s, 0, pw) : s \in MalformedSeqs, pw \in {0, 1, 3}}
    \* block_index out of bounds
    \cup {BlockPacket(s, block_count_32x32, 0) : s \in MalformedSeqs}
    \* sequence headers of another session or mode
    \cup {BitstreamSequenceHeaderBytes(width - 1, height - 1, s, 1, 1,
              BITSTREAM_EXTENDED_CODE_START_OF_FRAME, 1 - chroma) :
            s \in MalformedSeqs}
    \cup {BitstreamSequenceHeaderBytes(width, height - 1, s, 1, 1,
              BITSTREAM_EXTENDED_CODE_START_OF_FRAME, chroma) :
            s \in MalformedSeqs}
    \cup {BitstreamSequenceHeaderBytes(width - 1, height - 1, s, 1, 1, 1,
              chroma) : s \in MalformedSeqs}
    \* trailing bytes, a buffer shorter than a header, an empty buffer
    \cup {BlockPacket(0, 0, 0) \o <<0>>, <<0, 0, 0>>, << >>}

\* Buffers of two units: the second is of the same sequence, of a stale
\* one, or cut short; and a START_OF_FRAME with a block of the sequence
\* after it.
MixedInputs ==
    {first \o second :
        first \in {SequenceHeader(3, 2), BlockPacket(3, 0, 0)},
        second \in {BlockPacket(s, block_count_32x32 - 1, 0) :
                       s \in MalformedSeqs}
                   \cup {BareHeader(3, block_count_32x32 - 1, 3)}}
    \cup {SequenceHeader(0, 2) \o BlockPacket(1, 0, 0)}

PushInputs == WellFormedInputs \cup MalformedInputs \cup MixedInputs

\* The first header of a pushed buffer, as the decoder meets it in state st:
\* its kind, the difference d of its sequence to last_seq (-1: last_seq is
\* not set), whether it passes the check that precedes the sequence rule
\* (chroma_resolution for a sequence header, the declared size for a block
\* header), whether the buffer is exactly this one unit, for a block header
\* whether the block is already present and whether its index is out of
\* bounds, and for a sequence header its code and whether its width and
\* height are the session's.
NoHeader ==
    [kind |-> "none", d |-> -1, passes |-> FALSE, framed |-> FALSE,
     present |-> FALSE, code |-> -1, dims |-> FALSE, oob |-> FALSE]

FirstHeader(st, data) ==
    IF Len(data) < HeaderBytes THEN NoHeader
    ELSE LET block == hdr_extended(data, 0) = 0
             words == hdr_payload_words(data, 0)
             index == hdr_block_index(data, 0)
         IN  [kind |-> IF block THEN "block" ELSE "sequence",
              d |-> IF st.last_seq = UINT32_MAX THEN -1
                    ELSE (hdr_sequence(data, 0) - st.last_seq) % 8,
              passes |-> IF block THEN words * WordBytes <= Len(data)
                         ELSE seq_chroma_resolution(data, 0) = chroma,
              framed |-> IF block THEN words * WordBytes = Len(data)
                         ELSE Len(data) = HeaderBytes,
              present |-> /\ block
                          /\ index < block_count_32x32
                          /\ st.dequant_offset_buffer_cpu[index] # UINT32_MAX,
              code |-> IF block THEN -1 ELSE seq_code(data, 0),
              dims |-> /\ ~block
                       /\ seq_width_minus_1(data, 0) + 1 = width
                       /\ seq_height_minus_1(data, 0) + 1 = height,
              oob |-> block /\ index >= block_count_32x32]

\* What the last call was and how it ended.
CallRecord(op, r, first) ==
    [op |-> op, rc |-> r.rc, log |-> r.log, at |-> r.at, diff |-> r.diff,
     cleared |-> r.cleared, sof |-> r.sof, touched |-> r.touched,
     waiting |-> r.waiting,
     first |-> first]

NoResult(st) ==
    [st |-> st, rc |-> "true", log |-> "", at |-> 0, diff |-> -1,
     cleared |-> FALSE, sof |-> FALSE, touched |-> {}, waiting |-> FALSE]

SetDecoder(st) ==
    /\ dequant_offset_buffer_cpu' = st.dequant_offset_buffer_cpu
    /\ payload_data_cpu' = st.payload_data_cpu
    /\ decoded_blocks' = st.decoded_blocks
    /\ total_blocks_in_sequence' = st.total_blocks_in_sequence
    /\ last_seq' = st.last_seq
    /\ decoded_frame_for_current_sequence' =
           st.decoded_frame_for_current_sequence

Geometry ==
    [block_count_8x8 |-> block_count_8x8,
     block_count_32x32 |-> block_count_32x32,
     block_meta |-> block_meta,
     block_32x32_to_8x8_mapping |-> block_32x32_to_8x8_mapping]

\* WaveletBuffers::init for session s, up to the call of init_block_meta.
\* A device with every feature the encoder asks for and subgroups of 32.
ReferenceDevice ==
    [min_log2 |-> 5, max_log2 |-> 5, required_size_control |-> TRUE,
     subgroup_ops |-> TRUE, broadcast_dynamic_id |-> TRUE,
     shader_float16 |-> TRUE]

SessionInitOn(s, dev) ==
    /\ device = dev
    /\ width = s.width
    /\ height = s.height
    /\ chroma = s.chroma
    /\ block_count_8x8 = GeometryZero.block_count_8x8
    /\ block_count_32x32 = GeometryZero.block_count_32x32
    /\ block_meta = GeometryZero.block_meta
    /\ block_32x32_to_8x8_mapping = GeometryZero.block_32x32_to_8x8_mapping
    /\ init_pos = 0
    /\ initialized = FALSE

SessionInit(s) == SessionInitOn(s, ReferenceDevice)

\* The members of Decoder::Impl as constructed.
DecoderConstructed ==
    /\ dequant_offset_buffer_cpu = << >>
    /\ payload_data_cpu = << >>
    /\ decoded_blocks = 0
    /\ total_blocks_in_sequence = 0
    /\ last_seq = UINT32_MAX
    /\ decoded_frame_for_current_sequence = FALSE

\* The members of Encoder::Impl as constructed, and a caller that has not
\* packetized anything yet.
EncoderConstructed ==
    /\ encoder_initialized = FALSE
    /\ sequence_count = 0
    /\ mapped_meta = << >>
    /\ mapped_bitstream = << >>
    /\ cmd = << >>
    /\ boundary = 0
    /\ num_packets = 0
    /\ out_packets = 0
    /\ packets = << >>
    /\ output_bitstream = << >>
    /\ next_packet = 1
    /\ frames_encoded = 0
    /\ quant_code = 0
    /\ decoder_q_scale = 0
    /\ encoded_quant_code = 0

Init ==
    /\ \E s \in DecoderSessions : SessionInit(s)
    /\ DecoderConstructed
    /\ EncoderConstructed
    /\ call = CallRecord("construct", NoResult(0), NoHeader)

\* One iteration of the loops of WaveletBuffers::init_block_meta.
InitBlockMetaStep ==
    /\ init_pos < LoopCount
    /\ LET g == init_block_meta_iteration(Geometry, init_pos,
                    AlignedSize(width), AlignedSize(height), chroma)
       IN  /\ block_count_8x8' = g.block_count_8x8
           /\ block_count_32x32' = g.block_count_32x32
           /\ block_meta' = g.block_meta
           /\ block_32x32_to_8x8_mapping' = g.block_32x32_to_8x8_mapping
    /\ init_pos' = init_pos + 1
    /\ UNCHANGED << quantVars,
                    device, width, height, chroma, initialized, decVars,
                    encVars, callerVars, call >>

\* The rest of Decoder::init: Decoder::Impl::init_block_meta resizes
\* dequant_offset_buffer_cpu to block_count_32x32, then clear().
DecoderInit ==
    /\ init_pos = LoopCount
    /\ ~initialized
    /\ initialized' = TRUE
    /\ SetDecoder(clear([DecoderState EXCEPT !.dequant_offset_buffer_cpu =
                             [i \in 0 .. block_count_32x32 - 1 |-> 0]]))
    /\ call' = CallRecord("init", NoResult(0), NoHeader)
    /\ UNCHANGED << quantVars, device, width, height, chroma, block_count_8x8,
                    block_count_32x32, block_meta,
                    block_32x32_to_8x8_mapping, init_pos, encVars,
                    callerVars >>

\* The decoder can be called: init has returned, and so has every call (a
\* call that never returns leaves nothing to call afterwards).
Returned == initialized /\ call.rc # "diverges"

PushPacket(data) ==
    /\ Returned
    /\ LET r == push_packet(DecoderState, data)
       IN  /\ SetDecoder(r.st)
           /\ call' = CallRecord("push_packet", r,
                               FirstHeader(DecoderState, data))
    /\ UNCHANGED << quantVars, wbVars, encVars, callerVars >>

Decode ==
    /\ Returned
    /\ SetDecoder(decode(DecoderState))
    /\ call' = CallRecord("decode", NoResult(0), NoHeader)
    /\ UNCHANGED << quantVars, wbVars, encVars, callerVars >>

Clear ==
    /\ Returned
    /\ SetDecoder(clear(DecoderState))
    /\ call' = CallRecord("clear", NoResult(0), NoHeader)
    /\ UNCHANGED << quantVars, wbVars, encVars, callerVars >>

Next ==
    \/ InitBlockMetaStep
    \/ DecoderInit
    \/ \E data \in PushInputs : PushPacket(data)
    \/ Decode
    \/ Clear

Spec == Init /\ [][Next]_vars

(***************************************************************************)
(* Properties of the decoder's ingest, checked under Spec.                 *)
(***************************************************************************)
\* The step is a push_packet call.
Pushed == call'.op = "push_packet"

\* push_packet returned true after logging "Backwards sequence detected",
\* and changed nothing.
Dropped ==
    /\ call'.rc = "true"
    /\ call'.log = "Backwards sequence detected"
    /\ UNCHANGED decVars

\* The members a failed or skipped push is said to leave alone.
FrameUnchanged ==
    UNCHANGED << last_seq, decoded_blocks, total_blocks_in_sequence,
                 dequant_offset_buffer_cpu, payload_data_cpu >>

C4_WindowAboveFour ==
    [][Pushed /\ call'.first.passes /\ call'.first.framed =>
          /\ call'.log = "Backwards sequence detected"
                 => call'.first.d \in 5 .. 7
          /\ call'.first.d \in 1 .. 4
                 => /\ call'.cleared
                    /\ last_seq' = (last_seq + call'.first.d) % 8]_vars

\* C4 (amended): a first header that passes the check made before the
\* sequence rule is dropped as out-of-order exactly when d is 4, 5, 6 or 7;
\* for d in {1, 2, 3} push_packet clears the per-frame state and, the header
\* being alone in its buffer, leaves last_seq at the header's sequence.
C4_WindowAboveThree ==
    [][Pushed /\ call'.first.passes =>
          /\ call'.log = "Backwards sequence detected" /\ call'.at = 0
                 => call'.first.d \in 4 .. 7
          /\ call'.first.d \in 4 .. 7 => Dropped
          /\ call'.first.d \in 1 .. 3
                 => /\ call'.cleared
                    /\ call'.first.framed
                           => last_seq' = (last_seq + call'.first.d) % 8]_vars

\* A header four sequences ahead was dropped.
C4_Witness ==
    /\ call.op = "push_packet"
    /\ call.first.d = 4
    /\ call.first.passes
    /\ call.log = "Backwards sequence detected"
    /\ call.rc = "true"

\* C5: pushing a block packet (a buffer that is exactly one block packet)
\* whose block_index is already present for the current sequence returns
\* true and leaves decoded_blocks, dequant_offset, the payload vector,
\* total_blocks_in_sequence and last_seq unchanged, whatever the packet
\* holds.
C5_DuplicateBlock ==
    [][/\ Pushed
       /\ call'.first.kind = "block"
       /\ call'.first.framed
       /\ call'.first.d = 0
       /\ call'.first.present
       => call'.rc = "true" /\ FrameUnchanged]_vars

\* A block was pushed a second time, next to another block of its sequence.
C5_Witness ==
    /\ call.op = "push_packet"
    /\ call.first.kind = "block"
    /\ call.first.framed
    /\ call.first.d = 0
    /\ call.first.present
    /\ call.rc = "true"
    /\ decoded_blocks = 2

\* C6 as stated: whenever push_packet meets a block header whose declared
\* payload_words * 4 exceeds the bytes left in the buffer, it returns false
\* and the decoder state is as it was before the call.
C6_AnyOversizedHeader ==
    [][Pushed /\ call'.log = "Packet header states more bytes"
          => call'.rc = "false" /\ FrameUnchanged]_vars

\* C6 (amended): whenever push_packet meets a block header whose declared
\* payload_words * 4 exceeds the bytes left in the buffer, it returns
\* false; when that header is the first of the buffer, the decoder state is
\* as it was before the call.
C6_OversizedFirstHeader ==
    [][Pushed =>
          /\ call'.log = "Packet header states more bytes"
                 => call'.rc = "false"
          /\ call'.first.kind = "block" /\ ~call'.first.passes
                 => /\ call'.rc = "false"
                    /\ call'.log = "Packet header states more bytes"
                    /\ call'.at = 0
                    /\ UNCHANGED decVars]_vars

\* An oversized header of another sequence than the adopted one was
\* refused while a block was held.
C6_Witness ==
    /\ call.op = "push_packet"
    /\ call.first.kind = "block"
    /\ ~call.first.passes
    /\ call.first.d \in 1 .. 3
    /\ call.rc = "false"
    /\ decoded_blocks > 0

\* C7 as stated: decode_is_ready(false) implies decoded_blocks >=
\* total_blocks_in_sequence, and decode_is_ready(true) implies
\* decoded_blocks > total_blocks_in_sequence / 2, also for
\* total_blocks_in_sequence = 0.
C7_MoreThanHalfAlways ==
    initialized =>
        /\ decode_is_ready(FALSE)
               => decoded_blocks >= total_blocks_in_sequence
        /\ decode_is_ready(TRUE)
               => decoded_blocks > total_blocks_in_sequence \div 2

\* C7 (amended): decode_is_ready(false) implies decoded_blocks >=
\* total_blocks_in_sequence, and decode_is_ready(true) implies
\* decoded_blocks > total_blocks_in_sequence / 2 whenever
\* total_blocks_in_sequence > 0.
C7_MoreThanHalfOfSome ==
    initialized =>
        /\ decode_is_ready(FALSE)
               => decoded_blocks >= total_blocks_in_sequence
        /\ decode_is_ready(TRUE) /\ total_blocks_in_sequence > 0
               => decoded_blocks > total_blocks_in_sequence \div 2

\* A frame is ready as a partial frame only.
C7_Witness ==
    /\ initialized
    /\ decode_is_ready(TRUE)
    /\ ~decode_is_ready(FALSE)
    /\ total_blocks_in_sequence > 0

\* C8: while no decode has been issued for the current sequence,
\* decode_is_ready(true) is true if and only if 2 * decoded_blocks >=
\* total_blocks_in_sequence.
C8_AtLeastHalf ==
    initialized /\ ~decoded_frame_for_current_sequence =>
        (decode_is_ready(TRUE)
            <=> 2 * decoded_blocks >= total_blocks_in_sequence)

PushedAfterClear ==
    /\ call.op = "clear"
    /\ Pushed
    /\ call'.first.kind # "none"
    /\ call'.first.passes

\* C13 as stated: clear() leaves no block present, decoded_blocks = 0, the
\* payload vector empty, the decoded-frame flag false, and resets the
\* sequence tracking as init does, so that the next pushed packet is never
\* dropped as out-of-order, whatever its sequence number.
C13_ClearForgetsSequence ==
    /\ [][call'.op = "clear" =>
             /\ \A i \in DOMAIN dequant_offset_buffer_cpu' :
                    dequant_offset_buffer_cpu'[i] = UINT32_MAX
             /\ decoded_blocks' = 0
             /\ payload_data_cpu' = << >>
             /\ ~decoded_frame_for_current_sequence'
             /\ last_seq' = UINT32_MAX]_vars
    /\ [][PushedAfterClear => call'.log # "Backwards sequence detected"]_vars

\* C13 (amended): clear() leaves no block present, decoded_blocks = 0, the
\* payload vector empty, the decoded-frame flag false and
\* total_blocks_in_sequence = block_count_32x32, and it keeps last_seq: the
\* next pushed packet is judged against the sequence adopted before the
\* clear, and is dropped when its sequence is 5, 6 or 7 ahead of it mod 8.
C13_ClearKeepsSequence ==
    /\ [][call'.op = "clear" =>
             /\ \A i \in DOMAIN dequant_offset_buffer_cpu' :
                    dequant_offset_buffer_cpu'[i] = UINT32_MAX
             /\ decoded_blocks' = 0
             /\ payload_data_cpu' = << >>
             /\ ~decoded_frame_for_current_sequence'
             /\ total_blocks_in_sequence' = block_count_32x32
             /\ last_seq' = last_seq]_vars
    /\ [][PushedAfterClear /\ call'.first.d \in 5 .. 7 => Dropped]_vars

\* clear() has run on a decoder that had adopted a sequence.
C13_Witness ==
    /\ call.op = "clear"
    /\ last_seq # UINT32_MAX
    /\ decoded_blocks = 0
    /\ payload_data_cpu = << >>
    /\ total_blocks_in_sequence = block_count_32x32

\* The buffer pushed starts with a START_OF_FRAME header whose width,
\* height or chroma is not the session's.
MismatchedStartOfFrame ==
    /\ Pushed
    /\ call'.first.kind = "sequence"
    /\ call'.first.code = BITSTREAM_EXTENDED_CODE_START_OF_FRAME
    /\ ~call'.first.passes \/ ~call'.first.dims

\* C19 as stated: a START_OF_FRAME header whose width, height or chroma
\* does not match the session makes push_packet return false, and last_seq,
\* decoded_blocks, total_blocks_in_sequence, dequant_offset and the payload
\* vector are as they were before the call.
C19_ValidatedFirst ==
    [][MismatchedStartOfFrame => call'.rc = "false" /\ FrameUnchanged]_vars

\* What does hold: a chroma mismatch is rejected before the sequence rule
\* and changes nothing; a width or height mismatch is met after it: the
\* header is dropped with true when it is stale, and otherwise rejected,
\* after the state was cleared and its sequence adopted when that is new.
C19_DimensionsValidatedLast ==
    [][MismatchedStartOfFrame =>
          /\ ~call'.first.passes => call'.rc = "false" /\ UNCHANGED decVars
          /\ call'.first.passes /\ call'.first.d \in 4 .. 7 => Dropped
          /\ call'.first.passes /\ call'.first.d = 0
                 => call'.rc = "false" /\ UNCHANGED decVars
          /\ call'.first.passes /\ call'.first.d \in {-1, 1, 2, 3}
                 => /\ call'.rc = "false"
                    /\ call'.cleared
                    /\ last_seq' # last_seq
                    /\ decoded_blocks' = 0
                    /\ payload_data_cpu' = << >>]_vars

\* The buffer pushed starts with a block header whose block_index is out of
\* bounds.
OutOfBoundsBlock ==
    /\ Pushed
    /\ call'.first.kind = "block"
    /\ call'.first.oob

\* No block was recorded by the call: no index of dequant_offset_buffer_cpu
\* was accessed, no block counted, no payload appended.
NothingRecorded ==
    /\ call'.touched = {}
    /\ decoded_blocks' <= decoded_blocks
    /\ Len(payload_data_cpu') <= Len(payload_data_cpu)
    /\ \A i \in DOMAIN dequant_offset_buffer_cpu' :
           dequant_offset_buffer_cpu'[i]
               \in {UINT32_MAX, dequant_offset_buffer_cpu[i]}

\* C20 as stated: a block packet with block_index >= block_count_32x32
\* makes push_packet return false without recording the block, and no call
\* accesses dequant_offset at an index outside 0 .. block_count_32x32 - 1.
C20_OutOfBoundsFails ==
    /\ [][OutOfBoundsBlock => call'.rc = "false" /\ NothingRecorded]_vars
    /\ [][call'.touched \subseteq 0 .. block_count_32x32 - 1]_vars

\* C20 (amended): a block packet with block_index >= block_count_32x32 is
\* never recorded; push_packet returns false for it, with "block_index is
\* out of bounds" when its declared size fits the buffer, unless its
\* sequence is stale: then the packet is dropped and the call returns true.
\* No call accesses dequant_offset at an index outside
\* 0 .. block_count_32x32 - 1.
C20_OutOfBoundsFailsUnlessStale ==
    /\ [][OutOfBoundsBlock =>
             /\ NothingRecorded
             /\ ~call'.first.passes => call'.rc = "false"
             /\ call'.first.passes /\ call'.first.d \in 4 .. 7 => Dropped
             /\ call'.first.passes /\ call'.first.d \notin 4 .. 7
                    => /\ call'.rc = "false"
                       /\ call'.log = "block_index is out of bounds"]_vars
    /\ [][call'.touched \subseteq 0 .. block_count_32x32 - 1]_vars

\* A block with an out-of-bounds index was rejected while a block of the
\* same sequence was held.
C20_Witness ==
    /\ call.op = "push_packet"
    /\ call.first.oob
    /\ call.first.d = 0
    /\ call.rc = "false"
    /\ call.log = "block_index is out of bounds"
    /\ decoded_blocks > 0

\* C24: every call of push_packet terminates, for every input buffer and
\* every reachable decoder state: each iteration of its loop returns or
\* consumes at least one byte of the input.
C24_PushPacketTerminates ==
    call.op = "push_packet" => call.rc # "diverges"

\* C25: in every reachable decoder state, after calls that returned false
\* too, each block index i with dequant_offset[i] # UINT32_MAX points at a
\* complete stored block packet: the header at word offset dequant_offset[i]
\* of the payload vector has block_index = i, and dequant_offset[i] +
\* payload_words is at most the length of the payload vector.
C25_PresentBlocksAreStored ==
    initialized =>
        \A i \in DOMAIN dequant_offset_buffer_cpu :
            dequant_offset_buffer_cpu[i] # UINT32_MAX =>
                LET o == dequant_offset_buffer_cpu[i] * WordBytes
                IN  /\ o + HeaderBytes <= Len(payload_data_cpu)
                    /\ hdr_block_index(payload_data_cpu, o) = i
                    /\ o + hdr_payload_words(payload_data_cpu, o) * WordBytes
                           <= Len(payload_data_cpu)

\* The invariant holds as long as no push has met a block header that
\* declares fewer than two payload words.
C25_StoredUnlessShortHeader ==
    [][C25_PresentBlocksAreStored
           /\ ~(Pushed /\ call'.log = "payload_words is not large enough")
           => C25_PresentBlocksAreStored']_vars

\* The blocks the decoder holds.
PresentBlocks ==
    {i \in DOMAIN dequant_offset_buffer_cpu :
        dequant_offset_buffer_cpu[i] # UINT32_MAX}

\* The decoder waits for a START_OF_FRAME: the total is the session's
\* count of coarse blocks, a frame is ready only when every block is
\* present, and a partial frame only when more than half of them are.
WaitsForStartOfFrame ==
    /\ total_blocks_in_sequence = block_count_32x32
    /\ decode_is_ready(FALSE) =>
           PresentBlocks = DOMAIN dequant_offset_buffer_cpu
    /\ decode_is_ready(TRUE) =>
           2 * Cardinality(PresentBlocks) > block_count_32x32

\* C28: from the moment a sequence is adopted, or clear() is called, until
\* a START_OF_FRAME header of that sequence is processed,
\* total_blocks_in_sequence is block_count_32x32, so decode_is_ready(false)
\* requires every coarse block and decode_is_ready(true) more than half of
\* them: init, clear() and a push that adopted a sequence and met no
\* START_OF_FRAME after it leave the decoder waiting, and a call that
\* neither adopts a sequence nor processes a START_OF_FRAME leaves it so.
C28_TotalUntilStartOfFrame ==
    [][/\ call'.op \in {"init", "clear"} => WaitsForStartOfFrame'
       /\ (Pushed /\ call'.waiting) => WaitsForStartOfFrame'
       /\ (WaitsForStartOfFrame /\ initialized /\ ~call'.sof
              /\ call'.op \in {"push_packet", "decode"})
              => WaitsForStartOfFrame']_vars

\* A push whose buffer held a START_OF_FRAME and then a block of the next
\* sequence left the decoder waiting, with the block present.
C28_Witness ==
    /\ call.op = "push_packet"
    /\ call.sof
    /\ call.waiting
    /\ decoded_blocks = 1
    /\ WaitsForStartOfFrame
    /\ ~decode_is_ready(TRUE)

(***************************************************************************)
(* The block geometry over a range of session sizes: SpecGeom.             *)
(***************************************************************************)
\* Session sizes 1, 49, 97, ...: MaxSizeSteps steps of a block and a half.
MaxSizeSteps == 5
GeomSizes == {1 + 48 * i : i \in 0 .. MaxSizeSteps}
GeomSessions ==
    [width : GeomSizes, height : GeomSizes, chroma : {Chroma420, Chroma444}]

InitGeom ==
    /\ \E s \in GeomSessions : SessionInit(s)
    /\ DecoderConstructed
    /\ EncoderConstructed
    /\ call = CallRecord("construct", NoResult(0), NoHeader)

NextGeom ==
    \/ InitBlockMetaStep
    \/ DecoderInit

SpecGeom == InitGeom /\ [][NextGeom]_vars

\* The 32x32 blocks of a band of the given level, counted from the image
\* size: columns and rows.
BandColumns(level) == (LevelSize(AlignedSize(width), level) + 31) \div 32
BandRows(level) == (LevelSize(AlignedSize(height), level) + 31) \div 32

\* The coded bands in the order level L-1 down to 0, component, band, as
\* loop positions, and how many 32x32 blocks the enumeration has listed
\* before it comes to position k.
CodedPosition(k) ==
    BandIsCoded(chroma, LoopComponent(k), LoopLevel(k), LoopBand(k))

RECURSIVE EnumeratedBefore(_)
EnumeratedBefore(k) ==
    IF k = 0 THEN 0
    ELSE EnumeratedBefore(k - 1)
             + (IF CodedPosition(k - 1)
                THEN BandColumns(LoopLevel(k - 1)) * BandRows(LoopLevel(k - 1))
                ELSE 0)

\* index = block_offset_32x32 + y * block_stride_32x32 + x
BlockIndex32x32(k, x, y) ==
    LET meta == block_meta[<<LoopComponent(k), LoopLevel(k), LoopBand(k)>>]
    IN  meta.block_offset_32x32 + y * meta.block_stride_32x32 + x

\* C10: the enumeration of the coded bands in the order level L-1 down to
\* 0, component, band, y, x lists the 32x32 block index p at its position p:
\* the indices are strictly increasing, pairwise distinct and cover
\* [0, block_count_32x32) with no gap.  While init_block_meta runs this
\* holds of the bands it has passed.
C10_BlockIndicesContiguous ==
    /\ \A k \in 0 .. init_pos - 1 :
           CodedPosition(k) =>
               \A y \in 0 .. BandRows(LoopLevel(k)) - 1 :
                   \A x \in 0 .. BandColumns(LoopLevel(k)) - 1 :
                       BlockIndex32x32(k, x, y)
                           = EnumeratedBefore(k)
                                 + y * BandColumns(LoopLevel(k)) + x
    /\ EnumeratedBefore(init_pos) = block_count_32x32
    /\ Len(block_32x32_to_8x8_mapping) = block_count_32x32

\* init has run for a 4:4:4 session whose bands have rows of several
\* coarse blocks and a size that is no multiple of the alignment.
C10_Witness ==
    /\ initialized
    /\ chroma = Chroma444
    /\ width % Alignment # 0
    /\ BandColumns(0) > 2
    /\ BandRows(0) > 1
    /\ BandColumns(0) # BandRows(0)
    /\ block_count_32x32 > 100

\* The 8x8 blocks of a band of the given level, counted from the image
\* size: columns and rows.
BandColumns8x8(level) == (LevelSize(AlignedSize(width), level) + 7) \div 8
BandRows8x8(level) == (LevelSize(AlignedSize(height), level) + 7) \div 8

\* The indices of the 8x8 blocks of the band at loop position k:
\* block_offset_8x8 + y * block_stride_8x8 + x.
BandBlocks8x8(k) ==
    LET meta == block_meta[<<LoopComponent(k), LoopLevel(k), LoopBand(k)>>]
    IN  {meta.block_offset_8x8 + y * meta.block_stride_8x8 + x :
            x \in 0 .. BandColumns8x8(LoopLevel(k)) - 1,
            y \in 0 .. BandRows8x8(LoopLevel(k)) - 1}

\* The coarse blocks of the band at loop position k.
BandBlocks32x32(k) ==
    {BlockIndex32x32(k, x, y) :
        x \in 0 .. BandColumns(LoopLevel(k)) - 1,
        y \in 0 .. BandRows(LoopLevel(k)) - 1}

\* The 8x8 blocks the descriptor of coarse block c names.
Covered8x8(c) ==
    LET mapping == block_32x32_to_8x8_mapping[c + 1]
    IN  {mapping.block_offset_8x8 + y * mapping.block_stride_8x8 + x :
            x \in 0 .. mapping.block_width_8x8 - 1,
            y \in 0 .. mapping.block_height_8x8 - 1}

\* C22: for every coded band the coarse-to-fine descriptors partition the
\* band's 8x8 blocks: every 8x8 block of the band is block_offset_8x8 +
\* y * block_stride_8x8 + x for exactly one coarse block of the band and one
\* (x, y) inside its width and height; widths and heights are 1 .. 4, and
\* less than 4 only in the last column or row of coarse blocks.  While
\* init_block_meta runs this holds of the bands it has passed.
C22_DescriptorsPartitionBand ==
    \A k \in 0 .. init_pos - 1 :
        CodedPosition(k) =>
            /\ UNION {Covered8x8(c) : c \in BandBlocks32x32(k)}
                   = BandBlocks8x8(k)
            /\ \A c1, c2 \in BandBlocks32x32(k) :
                   c1 # c2 => Covered8x8(c1) \cap Covered8x8(c2) = {}
            /\ \A y \in 0 .. BandRows(LoopLevel(k)) - 1 :
                   \A x \in 0 .. BandColumns(LoopLevel(k)) - 1 :
                       LET mapping == block_32x32_to_8x8_mapping[
                                          BlockIndex32x32(k, x, y) + 1]
                       IN  /\ mapping.block_width_8x8 \in 1 .. 4
                           /\ mapping.block_height_8x8 \in 1 .. 4
                           /\ Cardinality(Covered8x8(BlockIndex32x32(k, x, y)))
                                  = mapping.block_width_8x8
                                        * mapping.block_height_8x8
                           /\ mapping.block_width_8x8 < 4
                                  => x = BandColumns(LoopLevel(k)) - 1
                           /\ mapping.block_height_8x8 < 4
                                  => y = BandRows(LoopLevel(k)) - 1

\* init has run for a session whose finest bands have several columns of
\* coarse blocks, the last of them narrow, and a last row that is short.
C22_Witness ==
    /\ initialized
    /\ BandColumns(0) > 2
    /\ BandColumns8x8(0) % 4 = 2
    /\ \E c \in 0 .. block_count_32x32 - 1 :
           /\ block_32x32_to_8x8_mapping[c + 1].block_width_8x8 = 1
           /\ block_32x32_to_8x8_mapping[c + 1].block_height_8x8 = 3

(***************************************************************************)
(* Frames.  The stages of encode run on the GPU and leave a bitstream and  *)
(* a meta array in the caller's buffers; packetize takes both as           *)
(* arguments.  A frame here gives a few blocks one packed block each.      *)
(***************************************************************************)
\* Frames encoded per run, and the number of words by which the largest
\* packet_boundary tried exceeds the smallest, the 8 bytes of a header.
MaxFrames == 1
MaxBoundaryWords == 3

\* Block data is whole words, so boundaries between two multiples of 4
\* split a frame as the lower one does.
PacketBoundaries == {HeaderBytes + WordBytes * i : i \in 0 .. MaxBoundaryWords}

\* The blocks a frame may fill: the first two (the LL band of luma and of
\* Cb at the top level) and the last luma block of level 0.
LastLumaBlock == block_meta[<<0, 0, 3>>].block_offset_32x32 + BandColumns(0) * BandRows(0) - 1
FrameBlocks == {0, 1, LastLumaBlock}

\* "none": no data; "two": a header alone; "three": one 8x8 block in the
\* ballot, with no planes.  The others do not pass validation everywhere:
\* "index" carries the next block's index, "words" declares one word more
\* than meta says, "ballot" names the 8x8 block (1, 0), which a coarse
\* block one 8x8 block wide does not have.
ValidKinds == {"none", "two", "three"}
InvalidKinds == {"index", "words", "ballot"}

num_words_of(kind) ==
    CASE kind = "none" -> 0
      [] kind \in {"two", "index", "words"} -> 2
      [] kind \in {"three", "ballot"} -> 3

\* The bytes block_packing leaves for block i of a frame of the sequence.
BlockData(kind, sequence, i) ==
    CASE kind = "none" -> << >>
      [] kind = "two" -> BitstreamHeaderBytes(0, 2, sequence, 0, 0, i)
      [] kind = "three" ->
             BitstreamHeaderBytes(1, 3, sequence, 0, 0, i) \o <<0, 0, 0, 0>>
      [] kind = "index" -> BitstreamHeaderBytes(0, 2, sequence, 0, 0, i + 1)
      [] kind = "words" -> BitstreamHeaderBytes(0, 3, sequence, 0, 0, i)
      [] kind = "ballot" ->
             BitstreamHeaderBytes(2, 3, sequence, 0, 0, i) \o <<0, 0, 0, 0>>

\* Words of the frame's blocks below block i.
RECURSIVE WordsBelow(_, _)
WordsBelow(kinds, i) ==
    LET below == {j \in DOMAIN kinds : j < i}
    IN  IF below = {} THEN 0
        ELSE LET j == CHOOSE j \in below : \A l \in below : l <= j
             IN  WordsBelow(kinds, j) + num_words_of(kinds[j])

\* The meta array of a frame: the blocks are packed in the order of their
\* indices; an empty block's offset_u32 is 0 or the end of the data.
FrameMeta(frame) ==
    LET blocks == FrameBlocks
        end == WordsBelow(frame.kinds, block_count_32x32)
    IN  [k \in 1 .. block_count_32x32 |->
            IF k - 1 \in blocks /\ frame.kinds[k - 1] # "none"
            THEN [offset_u32 |-> WordsBelow(frame.kinds, k - 1),
                  num_words |-> num_words_of(frame.kinds[k - 1])]
            ELSE [offset_u32 |-> IF frame.empty_at_end THEN end ELSE 0,
                  num_words |-> 0]] \o << >>

\* The bitstream buffer of a frame: its blocks, then what the buffer held
\* before, a block header of the frame before.
RECURSIVE FrameData(_, _, _)
FrameData(kinds, sequence, blocks) ==
    IF blocks = {} THEN << >>
    ELSE LET i == CHOOSE i \in blocks : \A j \in blocks : i <= j
         IN  BlockData(kinds[i], sequence, i)
                 \o FrameData(kinds, sequence, blocks \ {i})

FrameBitstream(frame, sequence) ==
    FrameData(frame.kinds, sequence, DOMAIN frame.kinds)
        \o BitstreamHeaderBytes(0, 2, (sequence + SequenceCountMask)
                                         % (SequenceCountMask + 1), 0, 0, 0)

\* Frames whose blocks all pass validation, and frames with one block that
\* may not.
ValidFrames ==
    {f \in [kinds : [FrameBlocks -> ValidKinds], empty_at_end : BOOLEAN] :
        f.empty_at_end => f.kinds[0] = "none"}
InvalidFrames ==
    {[kinds |-> [j \in FrameBlocks |-> IF j = i THEN kind ELSE other],
      empty_at_end |-> FALSE] :
        i \in FrameBlocks, kind \in InvalidKinds, other \in {"none", "two"}}

\* A call that returned ok.
BoolResult(ok) ==
    [NoResult(0) EXCEPT !.rc = IF ok THEN "true" ELSE "false"]

\* Encoder::init: the capability checks, then WaveletBuffers::init, which
\* has run, and the buffers are created.
EncoderInit ==
    /\ init_pos = LoopCount
    /\ ~encoder_initialized
    /\ encoder_initialized' = Encoder_init(device)
    /\ call' = CallRecord("init", BoolResult(Encoder_init(device)), NoHeader)
    /\ UNCHANGED << quantVars, wbVars, decVars, sequence_count, mapped_meta,
                    mapped_bitstream, cmd, callerVars >>

\* What encode leaves when it has recorded r: the caller submits and reads
\* the two buffers back only when encode returned true.
SetEncoded(r, frame) ==
    /\ cmd' = r.cmds
    /\ call' = CallRecord("encode", BoolResult(r.ok), NoHeader)
    /\ IF r.ok
       THEN /\ mapped_meta' = FrameMeta(frame)
            /\ mapped_bitstream' = FrameBitstream(frame, sequence_count')
       ELSE UNCHANGED << mapped_meta, mapped_bitstream >>

\* The caller's packet array and output buffer are made anew for every
\* frame.
CallerStartsFrame ==
    /\ boundary' = 0
    /\ num_packets' = 0
    /\ out_packets' = 0
    /\ packets' = << >>
    /\ output_bitstream' = << >>
    /\ next_packet' = 1
    /\ frames_encoded' = frames_encoded + 1

\* Encoder::Impl::encode, and the read-back of the two buffers.
Encode(frame) ==
    /\ encoder_initialized
    /\ sequence_count < MaxFrames
    /\ sequence_count' = (sequence_count + 1) % (SequenceCountMask + 1)
    /\ SetEncoded(encode(device), frame)
    /\ CallerStartsFrame
    /\ UNCHANGED << quantVars, wbVars, decVars, encoder_initialized >>

\* What the caller has after packetize has returned r.
SetPackets(r) ==
    /\ out_packets' = r.num_packets
    /\ packets' = r.packets
    /\ output_bitstream' = r.output

\* The caller asks for the packet count and then packetizes, as
\* run_encoder_test does.
Packetize(packet_boundary) ==
    /\ encoder_initialized
    /\ mapped_meta # << >>
    /\ boundary' = packet_boundary
    /\ num_packets' = compute_num_packets(mapped_meta, packet_boundary)
    /\ SetPackets(packetize(packet_boundary, mapped_meta, mapped_bitstream))
    /\ next_packet' = 1
    /\ call' = CallRecord("packetize", NoResult(0), NoHeader)
    /\ UNCHANGED << quantVars, wbVars, decVars, encVars, frames_encoded >>

\* Every block of the frame in the mapped buffers passes validation.
FrameIsValid ==
    \A i \in 0 .. Len(mapped_meta) - 1 :
        validate_bitstream(mapped_bitstream, mapped_meta, i)

(***************************************************************************)
(* The packetizer over frames and packet boundaries: SpecPack.             *)
(***************************************************************************)
PackSessions ==
    {[width |-> 128, height |-> 128, chroma |-> c] :
        c \in {Chroma420, Chroma444}}

InitPack ==
    /\ \E s \in PackSessions : SessionInit(s)
    /\ DecoderConstructed
    /\ EncoderConstructed
    /\ call = CallRecord("construct", NoResult(0), NoHeader)

NextPack ==
    \/ InitBlockMetaStep
    \/ EncoderInit
    \/ \E frame \in ValidFrames \cup InvalidFrames : Encode(frame)
    \/ \E packet_boundary \in PacketBoundaries : Packetize(packet_boundary)

SpecPack == InitPack /\ [][NextPack]_vars

\* C2 as stated: for every meta array and every packet_boundary >= 8 the
\* count compute_num_packets gives equals the count packetize returns.
C2_CountsEqualAlways ==
    call.op = "packetize" => num_packets = out_packets

\* C2 (amended): for every meta array whose blocks all pass validation, and
\* every packet_boundary >= 8, the count compute_num_packets gives equals
\* the count packetize returns, which is the number of packets it wrote;
\* when a block fails validation packetize returns 0 and compute_num_packets
\* at least 1.
C2_CountsEqualWhenValid ==
    call.op = "packetize" =>
        /\ FrameIsValid => num_packets = out_packets
        /\ ~FrameIsValid => out_packets = 0 /\ num_packets >= 1
        /\ out_packets = Len(packets)

\* A frame of three blocks went out in two packets, the second of two
\* blocks.
C2_Witness ==
    /\ call.op = "packetize"
    /\ FrameIsValid
    /\ Cardinality(NonEmptyBlocks(mapped_meta)) = 3
    /\ num_packets = 2
    /\ out_packets = 2
    /\ packets[2].size > 12

(***************************************************************************)
(* packetize on a frame that fails validation.                             *)
(***************************************************************************)
\* C11 as stated: when a non-empty block fails validation, packetize reports
\* 0 packets and has written nothing to the output bitstream buffer or the
\* packet array.
C11_NothingWritten ==
    (call.op = "packetize" /\ ~FrameIsValid) =>
        /\ out_packets = 0
        /\ packets = << >>
        /\ output_bitstream = << >>

\* C11 (amended): when a non-empty block fails validation, packetize reports
\* 0 packets and has written no packet to the packet array; of the output
\* bitstream buffer it has written the first 8 bytes, the sequence header
\* of the frame, and nothing after them.
C11_OnlyHeaderWritten ==
    (call.op = "packetize" /\ ~FrameIsValid) =>
        /\ out_packets = 0
        /\ packets = << >>
        /\ Len(output_bitstream) = HeaderBytes
        /\ hdr_extended(output_bitstream, 0) = 1
        /\ seq_code(output_bitstream, 0)
               = BITSTREAM_EXTENDED_CODE_START_OF_FRAME
        /\ seq_total_blocks(output_bitstream, 0)
               = Cardinality(NonEmptyBlocks(mapped_meta))

\* packetize has failed on a frame with three non-empty blocks, the first
\* of them valid.
C11_Witness ==
    /\ call.op = "packetize"
    /\ ~FrameIsValid
    /\ Cardinality(NonEmptyBlocks(mapped_meta)) = 3
    /\ validate_bitstream(mapped_bitstream, mapped_meta, 0)
    /\ mapped_meta[1].num_words # 0

(***************************************************************************)
(* The packets packetize lays out, checked under SpecPack.                 *)
(***************************************************************************)
\* The offsets in data at which a block starts, from offset o on, each
\* block as long as its header declares.
RECURSIVE BlockStarts(_, _)
BlockStarts(data, o) ==
    IF o + HeaderBytes > Len(data) \/ hdr_payload_words(data, o) = 0 THEN {}
    ELSE {o} \cup BlockStarts(data,
                      o + WordBytes * hdr_payload_words(data, o))

\* The blocks of the output bitstream, after the sequence header.
OutputBlocks == BlockStarts(output_bitstream, HeaderBytes)
BlockBytes(o) == WordBytes * hdr_payload_words(output_bitstream, o)

\* packetize has returned packets for a frame that passed validation.
Packetized == call.op = "packetize" /\ FrameIsValid

\* C16: for a packet boundary of at least 8 bytes, every block lies whole
\* in one packet; every packet after the first starts at a block that did
\* not fit into the packet before it; and a packet larger than the
\* boundary is one block alone.
C16_PacketBoundary ==
    Packetized /\ boundary >= HeaderBytes =>
        /\ \A k \in DOMAIN packets : \A o \in OutputBlocks :
               \/ o + BlockBytes(o) <= packets[k].offset
               \/ o >= packets[k].offset + packets[k].size
               \/ /\ o >= packets[k].offset
                  /\ o + BlockBytes(o) <= packets[k].offset + packets[k].size
        /\ \A k \in DOMAIN packets :
               k > 1 =>
                   /\ packets[k].offset \in OutputBlocks
                   /\ packets[k - 1].size + BlockBytes(packets[k].offset)
                          > boundary
        /\ \A k \in DOMAIN packets :
               packets[k].size > boundary =>
                   /\ packets[k].offset \in OutputBlocks
                   /\ BlockBytes(packets[k].offset) = packets[k].size

\* A frame of three blocks was cut into a header packet, a packet of one
\* block larger than the boundary, and a packet that a block filled
\* exactly.
C16_Witness ==
    /\ Packetized
    /\ boundary = HeaderBytes
    /\ Len(packets) = 4
    /\ packets[1].size = HeaderBytes
    /\ \E k \in DOMAIN packets : packets[k].size > boundary
    /\ \E k \in 2 .. Len(packets) : packets[k].size = boundary

\* The sum of the sizes of the first n packets.
RECURSIVE PacketBytes(_)
PacketBytes(n) == IF n = 0 THEN 0 ELSE packets[n].size + PacketBytes(n - 1)

\* The sum of num_words over the blocks 0 .. n - 1 of the meta array.
RECURSIVE MetaWords(_)
MetaWords(n) ==
    IF n = 0 THEN 0 ELSE mapped_meta[n].num_words + MetaWords(n - 1)

\* C17: the packets of a successful packetize tile the output: the first
\* starts at offset 0 with the sequence header, each next one starts where
\* the one before it ends, no packet is empty, and the sizes sum to the
\* bytes written, 8 + 4 * (the sum of num_words over all blocks).
C17_PacketsTile ==
    Packetized =>
        /\ out_packets = Len(packets)
        /\ out_packets >= 1
        /\ packets[1].offset = 0
        /\ packets[1].size >= HeaderBytes
        /\ hdr_extended(output_bitstream, 0) = 1
        /\ seq_code(output_bitstream, 0)
               = BITSTREAM_EXTENDED_CODE_START_OF_FRAME
        /\ \A k \in 1 .. Len(packets) - 1 :
               packets[k + 1].offset = packets[k].offset + packets[k].size
        /\ \A k \in DOMAIN packets : packets[k].size > 0
        /\ PacketBytes(Len(packets)) = Len(output_bitstream)
        /\ Len(output_bitstream)
               = HeaderBytes + WordBytes * MetaWords(block_count_32x32)

\* Three packets, more than one block in the frame.
C17_Witness ==
    /\ Packetized
    /\ Len(packets) = 3
    /\ Cardinality(NonEmptyBlocks(mapped_meta)) = 3
    /\ packets[3].offset + packets[3].size = Len(output_bitstream)

\* C18 as stated: for every meta array, the sequence header packetize
\* writes carries the same sequence number as every block it emits for
\* the frame.
C18_SharedSequence ==
    Packetized =>
        \A o \in OutputBlocks :
            hdr_sequence(output_bitstream, o)
                = hdr_sequence(output_bitstream, 0)

\* What does hold: the sequence header carries the sequence of the blocks
\* when block 0 is not empty; every block carries sequence_count.
C18_SharedSequenceOfBlockZero ==
    Packetized =>
        /\ \A o \in OutputBlocks :
               hdr_sequence(output_bitstream, o) = sequence_count
        /\ mapped_meta[1].num_words # 0 =>
               hdr_sequence(output_bitstream, 0) = sequence_count

(***************************************************************************)
(* Encoder to decoder: SpecLink.  The caller is the loop of the round-trip *)
(* test: encode, packetize, push every packet in order, ask                *)
(* decode_is_ready, decode.                                                *)
(***************************************************************************)
LinkSessions == PackSessions

\* The frames of the round trip: the offset of an empty block is the running
\* offset of the packer, which for block 0 is 0.
LinkFrames == {f \in ValidFrames : ~f.empty_at_end}

\* Every packet of the last packetize has been pushed.
AllPushed == next_packet > Len(packets)

\* The bytes of packet p of the output bitstream.
PacketData(p) == SubSeq(output_bitstream, p.offset + 1, p.offset + p.size)

\* decoder.push_packet(bitstream_data.data() + packet.offset, packet.size)
\* for the next packet.
PushNext ==
    /\ Returned
    /\ ~AllPushed
    /\ LET data == PacketData(packets[next_packet])
           r == push_packet(DecoderState, data)
       IN  /\ SetDecoder(r.st)
           /\ call' = CallRecord("push_packet", r,
                               FirstHeader(DecoderState, data))
    /\ next_packet' = next_packet + 1
    /\ UNCHANGED << quantVars,
                    wbVars, encVars, boundary, num_packets, out_packets,
                    packets, output_bitstream, frames_encoded >>

InitLink ==
    /\ \E s \in LinkSessions : SessionInit(s)
    /\ DecoderConstructed
    /\ EncoderConstructed
    /\ call = CallRecord("construct", NoResult(0), NoHeader)

NextLink ==
    \/ InitBlockMetaStep
    \/ EncoderInit
    \/ encoder_initialized /\ DecoderInit
    \/ \E frame \in LinkFrames :
           /\ initialized
           /\ call.op \in {"init", "push_packet", "decode"}
           /\ AllPushed
           /\ Encode(frame)
    \/ \E packet_boundary \in PacketBoundaries :
           /\ call.op = "encode"
           /\ Packetize(packet_boundary)
    \/ call.op \in {"packetize", "push_packet"} /\ PushNext
    \/ call.op = "push_packet" /\ AllPushed /\ Decode

SpecLink == InitLink /\ [][NextLink]_vars

\* C1 as stated: for a frame whose blocks all pass validation, every push
\* of a packet that packetize returned, in order, into a decoder of the same
\* width, height and chroma returns true, and decode_is_ready(false) is true
\* after the last push.  (The decoder has seen at most the frames before,
\* so the frame's sequence is never stale.)
C1_RoundTrip ==
    (call.op = "push_packet" /\ FrameIsValid) =>
        /\ call.rc = "true"
        /\ AllPushed => decode_is_ready(FALSE)

(***************************************************************************)
(* The encoder over devices: SpecEncode.                                   *)
(***************************************************************************)
MinSubgroupLog2 == 2
MaxSubgroupLog2 == 7

\* Devices: a range of subgroup sizes, with or without control of the
\* required size, with or without each feature Encoder::init asks for.
Devices ==
    {d \in [min_log2 : MinSubgroupLog2 .. MaxSubgroupLog2,
            max_log2 : MinSubgroupLog2 .. MaxSubgroupLog2,
            required_size_control : BOOLEAN,
            subgroup_ops : BOOLEAN,
            broadcast_dynamic_id : BOOLEAN,
            shader_float16 : BOOLEAN] : d.min_log2 <= d.max_log2}

\* The frames the GPU produces in this specification.
EncodeFrames ==
    {f \in ValidFrames : \A i \in FrameBlocks : f.kinds[i] = "two"}

InitEncode ==
    /\ \E s \in DecoderSessions : \E dev \in Devices : SessionInitOn(s, dev)
    /\ DecoderConstructed
    /\ EncoderConstructed
    /\ call = CallRecord("construct", NoResult(0), NoHeader)

NextEncode ==
    \/ InitBlockMetaStep
    \/ EncoderInit
    \/ \E frame \in EncodeFrames : Encode(frame)

SpecEncode == InitEncode /\ [][NextEncode]_vars

\* C12 as stated: once Encoder::init has returned true for a device, every
\* encode on that device returns true.  (Encode is enabled only after
\* Encoder::init has returned true.)
C12_EncodeNeverFails ==
    call.op = "encode" => call.rc = "true"

\* What does hold: encode returns true on exactly the devices that can run
\* subgroups of 32, which is what quant asks for.
C12_EncodeFailsInQuant ==
    call.op = "encode" =>
        (call.rc = "true" <=> supports_subgroup_size_log2(device, 5, 5))

(***************************************************************************)
(* The quant codes through decode_quant and encode_quant: SpecQuant.       *)
(***************************************************************************)
MaxQuantCode == 63
QuantCodes == 0 .. MaxQuantCode

\* decode_quant(code), as the decoder and Encoder::Impl::quant call it.
DecodeQuant(code) ==
    /\ quant_code' = code
    /\ decoder_q_scale' = decode_quant(code)
    /\ call' = CallRecord("decode_quant", NoResult(0), NoHeader)
    /\ UNCHANGED << wbVars, decVars, encVars, callerVars,
                    encoded_quant_code >>

\* encode_quant on the scale decode_quant has returned.
EncodeQuant ==
    /\ call.op = "decode_quant"
    /\ encoded_quant_code' = encode_quant(decoder_q_scale)
    /\ call' = CallRecord("encode_quant", NoResult(0), NoHeader)
    /\ UNCHANGED << wbVars, decVars, encVars, callerVars, quant_code,
                    decoder_q_scale >>

NextQuant ==
    \/ \E code \in QuantCodes : DecodeQuant(code)
    \/ EncodeQuant

SpecQuant == Init /\ [][NextQuant]_vars

\* C14: encode_quant(decode_quant(c)) = c for every quant code c in
\* 0 .. 63, and the scale is (8 + c mod 8) * 2^(1 - c div 8), a normal float.
C14_QuantRoundTrip ==
    /\ call.op = "encode_quant" => encoded_quant_code = quant_code
    /\ call.op \in {"decode_quant", "encode_quant"} =>
           decoder_q_scale =
               (FloatBias + MaxScaleExp - (quant_code \div 8)) * Pow2(23)
                   + (quant_code % 8) * Pow2(20)

\* The largest code, with a mantissa, has gone through both functions.
C14_Witness ==
    /\ call.op = "encode_quant"
    /\ quant_code = 63
    /\ encoded_quant_code = 63
    /\ decoder_q_scale = (FloatBias - 3) * Pow2(23) + 7 * Pow2(20)

\* The stages in the order the spec gives them.
StageRank(stage) ==
    CASE stage = "dwt" -> 1
      [] stage = "quant" -> 2
      [] stage = "analyze_rdo" -> 3
      [] stage = "resolve_rdo" -> 4
      [] stage = "block_packing" -> 5

\* The positions of the dispatches in the command buffer, and the stages
\* that have one.
Dispatches == {i \in DOMAIN cmd : cmd[i].op = "dispatch"}
RecordedStages == {StageRank(cmd[i].stage) : i \in Dispatches}

\* cmd[k] makes compute-shader storage writes visible to compute-shader
\* storage or sampled reads.
PublishesWrites(k) ==
    /\ cmd[k].op = "barrier"
    /\ "compute:storage_write" \in cmd[k].src
    /\ cmd[k].dst \cap {"compute:storage_read", "compute:sampled_read"} # {}

\* C15: in the commands of every encode the dispatches of the stages come
\* in the order dwt, quant, analyze_rdo, resolve_rdo, block_packing; every
\* dispatch of a stage is followed by a barrier from compute-shader writes
\* to compute-shader reads that comes before any dispatch of a later
\* stage; and the stages recorded are exactly those before the first one
\* that returns false, all five when encode returns true.
C15_LinearStages ==
    call.op = "encode" =>
        /\ \A i, j \in Dispatches :
               i < j => StageRank(cmd[i].stage) <= StageRank(cmd[j].stage)
        /\ \A i \in Dispatches :
               \E k \in DOMAIN cmd :
                   /\ k > i
                   /\ PublishesWrites(k)
                   /\ \A j \in Dispatches :
                          i < j /\ j < k => cmd[j].stage = cmd[i].stage
        /\ RecordedStages =
               {n \in 1 .. 5 : \A q \in 1 .. n : EncodeStage(device, q).ok}
        /\ call.rc = "true" <=> RecordedStages = 1 .. 5

\* An encode that returned true and recorded all five stages.
C15_Witness ==
    /\ call.op = "encode"
    /\ call.rc = "true"
    /\ RecordedStages = 1 .. 5
    /\ Cardinality(Dispatches) > 5

(***************************************************************************)
(* validate_bitstream over packed blocks of many shapes: SpecValidate.     *)
(* The caller hands packetize a meta array with one non-empty block and    *)
(* the bitstream buffer that holds it, followed by what the buffer held    *)
(* before.                                                                 *)
(***************************************************************************)
MaxBlockWords == 5
StaleLen == 40

\* The shapes of the one block: the block it is, its ballot, the control
\* word and the Q byte of each of its 8x8 blocks, the byte that fills the
\* rest of it, the payload_words of its header, and a flaw of its header
\* against the meta array.
BlockShapes ==
    [block : {0, LastLumaBlock},
     ballot : {0, 1, 2, 3, 32768},
     control : {0, 1, 2, 4, 17},
     q : {0, 1},
     fill : {0, 1, 255},
     words : 2 .. MaxBlockWords,
     flaw : {"none"}]
    \cup [block : {0, LastLumaBlock}, ballot : {0, 1}, control : {0},
          q : {0}, fill : {0}, words : 2 .. 3, flaw : {"index", "words"}]

ShapeMeta(shape) ==
    [k \in 1 .. block_count_32x32 |->
        IF k - 1 = shape.block
        THEN [offset_u32 |-> 0,
              num_words |-> shape.words
                                + (IF shape.flaw = "words" THEN 1 ELSE 0)]
        ELSE [offset_u32 |-> 0, num_words |-> 0]] \o << >>

ShapeBitstream(shape, sequence) ==
    SubSeq(BitstreamHeaderBytes(shape.ballot, shape.words, sequence, 0, 0,
               shape.block + (IF shape.flaw = "index" THEN 1 ELSE 0))
             \o [k \in 1 .. 2 * popcount32(shape.ballot) |->
                    IF k % 2 = 1 THEN shape.control % 256
                    ELSE shape.control \div 256]
             \o FillBytes(popcount32(shape.ballot), shape.q)
             \o FillBytes(MaxBlockWords * WordBytes, shape.fill),
           1, shape.words * WordBytes)
        \o FillBytes(StaleLen, 255)

\* Encoder::Impl::encode leaving a block of the shape in the buffers, for
\* the first frame of the session.
EncodeShape(shape) ==
    /\ encoder_initialized
    /\ frames_encoded = 0
    /\ sequence_count' = (sequence_count + 1) % (SequenceCountMask + 1)
    /\ cmd' = encode(device).cmds
    /\ mapped_meta' = ShapeMeta(shape)
    /\ mapped_bitstream' = ShapeBitstream(shape, sequence_count')
    /\ call' = CallRecord("encode", NoResult(0), NoHeader)
    /\ CallerStartsFrame
    /\ UNCHANGED << quantVars, wbVars, decVars, encoder_initialized >>

NextValidate ==
    \/ InitBlockMetaStep
    \/ EncoderInit
    \/ \E shape \in BlockShapes : EncodeShape(shape)
    \/ Packetize(HeaderBytes + MaxBlockWords * WordBytes)

SpecValidate == InitPack /\ [][NextValidate]_vars

\* The set bits of the ballot of the block at byte o, and the bit of rank r.
BallotBits(o) ==
    {bit \in 0 .. 15 : BitAt(hdr_ballot(mapped_bitstream, o), bit) = 1}
BallotBit(o, r) ==
    CHOOSE bit \in BallotBits(o) :
        Cardinality({b \in BallotBits(o) : b < bit}) = r

\* The control word and the Q bits of the 8x8 block of rank r.
ControlWord(o, r) ==
    mapped_bitstream[o + HeaderBytes + 2 * r + 1]
        + 256 * mapped_bitstream[o + HeaderBytes + 2 * r + 2]
QBits(o, r) ==
    mapped_bitstream[o + HeaderBytes + 2 * Cardinality(BallotBits(o))
                       + r + 1] % 16

\* The block_mask of the 8x8 block of ballot bit bit of coarse block i.
MaskOf(i, bit) ==
    block_mask(block_32x32_to_8x8_mapping[i + 1].block_offset_8x8
                   + block_32x32_to_8x8_mapping[i + 1].block_stride_8x8
                         * (bit \div 4)
                   + (bit % 4))

\* The number of planes of each in-bounds 4x2 sub-block: entry 8 * r + sub
\* + 1 is for sub-block sub of the 8x8 block of rank r; 0 for a sub-block
\* out of bounds.
PlaneCounts(i, o) ==
    [p \in 1 .. 8 * Cardinality(BallotBits(o)) |->
        IF BitAt(MaskOf(i, BallotBit(o, (p - 1) \div 8)),
                 2 * ((p - 1) % 8)) = 0
        THEN 0
        ELSE QBits(o, (p - 1) \div 8)
                 + ((ControlWord(o, (p - 1) \div 8)
                        \div Pow2(2 * ((p - 1) % 8))) % 4)]

\* The plane bytes of the first n sub-blocks.
RECURSIVE PlaneBytes(_, _)
PlaneBytes(planes, n) ==
    IF n = 0 THEN 0 ELSE planes[n] + PlaneBytes(planes, n - 1)

\* The significant values of the first n sub-blocks: the plane bytes follow
\* the control words and Q bytes, sub-block after sub-block.
RECURSIVE SignificantValues(_, _, _)
SignificantValues(planes, o, n) ==
    IF n = 0 THEN 0
    ELSE PlaneSignificance(mapped_bitstream,
             o + HeaderBytes + 3 * (Len(planes) \div 8)
               + PlaneBytes(planes, n - 1),
             planes[n])
         + SignificantValues(planes, o, n - 1)

\* The word count of the block from its planes.
WordCount(planes, o) ==
    (HeaderBytes + 3 * (Len(planes) \div 8)
         + PlaneBytes(planes, Len(planes))
         + (SignificantValues(planes, o, Len(planes)) + 7) \div 8
         + 3) \div 4

\* What C21 says validate_bitstream accepts: block i of the mapped buffers.
\* The word count is taken of a block whose planes end inside it, which the
\* equation implies.
Accepted(i, o) ==
    \/ mapped_meta[i + 1].num_words = 0
    \/ /\ hdr_block_index(mapped_bitstream, o) = i
       /\ hdr_payload_words(mapped_bitstream, o) = mapped_meta[i + 1].num_words
       /\ \A bit \in BallotBits(o) :
              /\ bit % 4 < block_32x32_to_8x8_mapping[i + 1].block_width_8x8
              /\ bit \div 4
                     < block_32x32_to_8x8_mapping[i + 1].block_height_8x8
       /\ \A r \in 0 .. Cardinality(BallotBits(o)) - 1 :
              \A sub \in 0 .. 7 :
                  (ControlWord(o, r) \div Pow2(2 * sub)) % 4 # 0
                      => BitAt(MaskOf(i, BallotBit(o, r)), 2 * sub) = 1
       /\ HeaderBytes + 3 * Cardinality(BallotBits(o))
                  + PlaneBytes(PlaneCounts(i, o),
                               8 * Cardinality(BallotBits(o)))
              <= WordBytes * hdr_payload_words(mapped_bitstream, o)
       /\ WordCount(PlaneCounts(i, o), o)
              = hdr_payload_words(mapped_bitstream, o)

\* C21: validate_bitstream accepts a block exactly when it is empty, or its
\* header's block_index is its meta index, its payload_words is the meta's
\* num_words, every set ballot bit lies inside the block's area of 8x8
\* blocks, control bits are set only for in-bounds 4x2 sub-blocks, and
\* ceil((8 + 3 * popcount(ballot) + plane bytes + ceil(significant values
\* / 8)) / 4) is payload_words.
C21_ValidateAccepts ==
    call.op = "packetize" =>
        \A i \in 0 .. Len(mapped_meta) - 1 :
            validate_bitstream(mapped_bitstream, mapped_meta, i)
                <=> Accepted(i, mapped_meta[i + 1].offset_u32 * WordBytes)

\* A block with a partial mask, planes and sign bits was accepted.
C21_Witness ==
    /\ call.op = "packetize"
    /\ out_packets > 0
    /\ mapped_meta[1].num_words = 4
    /\ hdr_ballot(mapped_bitstream, 0) = 1
    /\ PlaneBytes(PlaneCounts(0, 0), 8) > 0
    /\ SignificantValues(PlaneCounts(0, 0), 0, 8) > 0

\* C29: validate_bitstream reads only bytes of the block it validates:
\* every byte offset it dereferences, of a well-formed block or not, is
\* below 4 * payload_words of the block.
C29_ReadsInsideBlock ==
    call.op = "packetize" =>
        \A i \in NonEmptyBlocks(mapped_meta) :
            validate_bitstream_reads(mapped_bitstream, mapped_meta, i)
                <= WordBytes * hdr_payload_words(mapped_bitstream,
                                   mapped_meta[i + 1].offset_u32 * WordBytes)

\* The blocks validate_bitstream accepts were read inside the block.
C29_AcceptedReadInsideBlock ==
    call.op = "packetize" =>
        \A i \in NonEmptyBlocks(mapped_meta) :
            validate_bitstream(mapped_bitstream, mapped_meta, i)
                => validate_bitstream_reads(mapped_bitstream, mapped_meta, i)
                       <= WordBytes * mapped_meta[i + 1].num_words

(***************************************************************************)
(* The bands the stages of encoder and decoder visit, in both chroma       *)
(* modes: SpecBands.                                                       *)
(***************************************************************************)
InitBands ==
    /\ \E s \in PackSessions : SessionInit(s)
    /\ DecoderConstructed
    /\ EncoderConstructed
    /\ call = CallRecord("construct", NoResult(0), NoHeader)

NextBands ==
    \/ InitBlockMetaStep
    \/ EncoderInit
    \/ DecoderInit
    \/ \E frame \in EncodeFrames : Encode(frame)
    \/ Decode

SpecBands == InitBands /\ [][NextBands]_vars

\* The (component, level, band) triples init_block_meta assigned block
\* indices to: a band it passed has a stride of at least one block.
AssignedBands == {key \in BandKeys : block_meta[key] # BlockInfoZero}

\* The triples the dispatches of a stage name in a recorded command list.
VisitedBands(cmds, stage) ==
    {<<cmds[i].component, cmds[i].level, cmds[i].band>> :
        i \in {j \in DOMAIN cmds :
                  cmds[j].op = "dispatch" /\ cmds[j].stage = stage}}

\* C23: every stage that iterates coded bands (quant, analyze_rdo and
\* block_packing of the encoder, dequant of the decoder) visits exactly the
\* (level, component, band) triples init_block_meta assigned block indices
\* to, in 4:2:0 and in 4:4:4.
C23_StagesVisitCodedBands ==
    /\ call.op = "encode" =>
           \A stage \in {"quant", "analyze_rdo", "block_packing"} :
               VisitedBands(cmd, stage) = AssignedBands
    /\ call.op = "decode" =>
           VisitedBands(dequant(chroma), "dequant") = AssignedBands

\* The decoder's dequant visits the assigned bands in both chroma modes,
\* and the encoder's stages do in 4:2:0.
C23_VisitCodedBandsUnless444Encoder ==
    /\ (call.op = "encode" /\ chroma = Chroma420) =>
           \A stage \in {"quant", "analyze_rdo", "block_packing"} :
               VisitedBands(cmd, stage) = AssignedBands
    /\ call.op = "decode" =>
           VisitedBands(dequant(chroma), "dequant") = AssignedBands

(***************************************************************************)
(* The packets of a frame pushed in any order, some more than once:        *)
(* SpecOrder.                                                              *)
(***************************************************************************)
\* The frames of this specification: header-only blocks, with the offset of
\* an empty block either the packer's running offset or the end of the data.
OrderFrames ==
    {f \in ValidFrames : \A i \in FrameBlocks : f.kinds[i] \in {"none", "two"}}

\* How many pushes more than the packets of the frame an order may have.
MaxRepeats == 1

\* decoder.push_packet for packet k of the last packetize.
PushAny(k) ==
    /\ Returned
    /\ k \in DOMAIN packets
    /\ LET data == PacketData(packets[k])
           r == push_packet(DecoderState, data)
       IN  /\ SetDecoder(r.st)
           /\ call' = CallRecord("push_packet", r,
                               FirstHeader(DecoderState, data))
    /\ UNCHANGED << quantVars, wbVars, encVars, callerVars >>

NextOrder ==
    \/ InitBlockMetaStep
    \/ EncoderInit
    \/ encoder_initialized /\ DecoderInit
    \/ \E frame \in OrderFrames :
           /\ initialized
           /\ call.op \in {"init", "push_packet"}
           /\ Encode(frame)
    \/ \E packet_boundary \in PacketBoundaries :
           /\ call.op = "encode"
           /\ Packetize(packet_boundary)
    \/ \E k \in DOMAIN packets :
           /\ call.op \in {"packetize", "push_packet"}
           /\ PushAny(k)

SpecOrder == InitLink /\ [][NextOrder]_vars

\* The decoder after the packets of the last packetize were pushed in the
\* given order, from the k-th on.
RECURSIVE PushAll(_, _, _)
PushAll(st, order, k) ==
    IF k > Len(order) THEN st
    ELSE PushAll(push_packet(st, PacketData(packets[order[k]])).st,
                 order, k + 1)

\* What C26 compares: the present blocks, the two counters and the two
\* results of decode_is_ready.
Summary(st) ==
    [present |-> {i \in DOMAIN st.dequant_offset_buffer_cpu :
                     st.dequant_offset_buffer_cpu[i] # UINT32_MAX},
     decoded_blocks |-> st.decoded_blocks,
     total_blocks_in_sequence |-> st.total_blocks_in_sequence,
     ready |-> decode_is_ready_in(st, FALSE),
     ready_partial |-> decode_is_ready_in(st, TRUE)]

\* The orders that push every one of n packets, some of them again.
PushOrders(n) ==
    {order \in UNION {[1 .. m -> 1 .. n] : m \in n .. n + MaxRepeats} :
        \A k \in 1 .. n : \E j \in DOMAIN order : order[j] = k}

\* The packets in the order packetize returned them.
InOrder(n) == [k \in 1 .. n |-> k]

\* The sequence header of the frame carries the sequence of its blocks.
HeaderOfFrameSequence ==
    hdr_sequence(output_bitstream, 0) = sequence_count

\* C26: for the packets of one packetize call the decoder's resulting set
\* of present blocks, decoded_blocks, total_blocks_in_sequence and the
\* results of decode_is_ready(false) and decode_is_ready(true) are the same
\* for every order in which the packets are pushed and for any repetition
\* of packets.
C26_OrderIndependent ==
    (call.op = "packetize" /\ initialized /\ FrameIsValid) =>
        \A order \in PushOrders(Len(packets)) :
            Summary(PushAll(DecoderState, order, 1))
                = Summary(PushAll(DecoderState, InOrder(Len(packets)), 1))

\* The same for the frames whose sequence header carries the sequence of
\* the frame's blocks.
C26_OrderIndependentOfOneSequence ==
    (call.op = "packetize" /\ initialized /\ FrameIsValid
         /\ HeaderOfFrameSequence) =>
        \A order \in PushOrders(Len(packets)) :
            Summary(PushAll(DecoderState, order, 1))
                = Summary(PushAll(DecoderState, InOrder(Len(packets)), 1))

(***************************************************************************)
(* A stream of frames over a network that loses and delays packets:        *)
(* SpecNet.  The sequence number of the encoder wraps.                     *)
(***************************************************************************)
\* The frames of a run: one more than the sequence numbers there are.
MaxNetFrames == 9

\* Frame f carries the sequence the f-th encode has given it.
SequenceOfFrame(f) == f % (SequenceCountMask + 1)

\* The frame the encoder leaves in the buffers: its blocks 0 and 1.
NetFrame ==
    [kinds |-> [i \in FrameBlocks |->
                   IF i = LastLumaBlock THEN "none" ELSE "three"],
     empty_at_end |-> FALSE]
NetBlocks == {0, 1}

\* Encoder::Impl::encode for the next frame of the stream.
EncodeNet ==
    /\ encoder_initialized
    /\ frames_encoded < MaxNetFrames
    /\ sequence_count' = (sequence_count + 1) % (SequenceCountMask + 1)
    /\ SetEncoded(encode(device), NetFrame)
    /\ CallerStartsFrame
    /\ UNCHANGED << quantVars, wbVars, decVars, encoder_initialized >>

\* The packet of block i of frame f as it travels: a block of three words
\* whose last word is the frame's data, here the number of the frame, alone
\* or behind the frame's sequence header.
NetBlockPacket(f, i) ==
    BitstreamHeaderBytes(1, 3, SequenceOfFrame(f), 0, 0, i)
        \o << 0, 0, 0, f >>
NetPackets(f) ==
    {NetBlockPacket(f, i) : i \in NetBlocks}
    \cup {SequenceHeader(SequenceOfFrame(f), Cardinality(NetBlocks))
              \o NetBlockPacket(f, i) : i \in NetBlocks}

\* The network delivers a packet of a frame that has been encoded, however
\* long ago; the packets it never delivers are lost.
Deliver(data) ==
    /\ Returned
    /\ LET r == push_packet(DecoderState, data)
       IN  /\ SetDecoder(r.st)
           /\ call' = CallRecord("push_packet", r,
                               FirstHeader(DecoderState, data))
    /\ UNCHANGED << quantVars, wbVars, encVars, callerVars >>

NextNet ==
    \/ InitBlockMetaStep
    \/ EncoderInit
    \/ encoder_initialized /\ DecoderInit
    \/ initialized /\ EncodeNet
    \/ \E f \in 1 .. frames_encoded : \E data \in NetPackets(f) :
           Deliver(data)

SpecNet == Init /\ [][NextNet]_vars

\* The frame whose data the decoder holds for block i.
FrameOfBlock(i) ==
    payload_data_cpu[dequant_offset_buffer_cpu[i] * WordBytes
                         + HeaderBytes + WordBytes]

\* C27 as stated: with an encoder that advances its sequence number by one
\* (mod 8) per encode and a network that may drop or delay any packets,
\* the blocks present in the decoder at any time all belong to one single
\* encoder frame.
C27_OneFrame ==
    \A i, j \in PresentBlocks : FrameOfBlock(i) = FrameOfBlock(j)

\* C27: the blocks present in the decoder at any time all carry one
\* sequence number, the adopted one: they belong to frames whose numbers
\* are equal modulo 8, the number of sequence numbers there are.
C27_OneSequence ==
    /\ sequence_count = SequenceOfFrame(frames_encoded)
    /\ \A i \in PresentBlocks :
           /\ SequenceOfFrame(FrameOfBlock(i)) = last_seq
           /\ hdr_sequence(payload_data_cpu,
                           dequant_offset_buffer_cpu[i] * WordBytes)
                  = last_seq

\* The decoder holds a block of the first frame and a block of the ninth.
C27_Witness ==
    /\ frames_encoded = MaxNetFrames
    /\ PresentBlocks = NetBlocks
    /\ \E i, j \in PresentBlocks :
           /\ FrameOfBlock(i) = 1
           /\ FrameOfBlock(j) = SequenceCountMask + 2

(***************************************************************************)
(* The packetizer in the smallest and in the largest session: SpecLarge.   *)
(***************************************************************************)
MinSessionSize == 128
MaxSessionSize == 8192
LargeSessions ==
    {[width |-> size, height |-> size, chroma |-> Chroma420] :
        size \in {MinSessionSize, MaxSessionSize}}

InitLarge ==
    /\ \E s \in LargeSessions : SessionInit(s)
    /\ DecoderConstructed
    /\ EncoderConstructed
    /\ call = CallRecord("construct", NoResult(0), NoHeader)

\* The frame has the blocks 0, 1 and the last luma block, and every block
\* goes into a packet of its own.
NextLarge ==
    \/ InitBlockMetaStep
    \/ EncoderInit
    \/ \E frame \in EncodeFrames : Encode(frame)
    \/ Packetize(HeaderBytes)

SpecLarge == InitLarge /\ [][NextLarge]_vars

\* C30: for a frame that passed validation the assertion of packetize that
\* the header's block_index of each block it copies is the block's meta
\* index holds, in every session the codec supports, those of more than
\* 65,536 coarse blocks (8192x8192) included.
C30_AssertBlockIndex ==
    Packetized =>
        \A i \in NonEmptyBlocks(mapped_meta) :
            packetize_assert_block(mapped_meta, mapped_bitstream, i)

\* The assertion holds for the blocks whose index fits 16 bits.
C30_AssertBlockIndexBelow65536 ==
    Packetized =>
        \A i \in NonEmptyBlocks(mapped_meta) :
            i < Pow2(16) =>
                packetize_assert_block(mapped_meta, mapped_bitstream, i)

=============================================================================
